---- MODULE Spec2Model ----
(***************************************************************************)
(* A model of the ly-mcp adapter: request models build a query-parameter  *)
(* mapping, a transport issues one HTTP GET, and the tool boundary turns  *)
(* the upstream outcome into a returned string or envelope.                *)
(*                                                                         *)
(* Strings of the source that are not ASCII are written as ASCII tokens;   *)
(* the source text is given in the comment next to each token.             *)
(***************************************************************************)
EXTENDS Integers, Sequences, FiniteSets, TLC

VARIABLES pc, inv, req, gets, upstream, envelope, result,
          clients, client, cache, procs, api_client

vars == <<pc, inv, req, gets, upstream, envelope, result,
          clients, client, cache, procs, api_client>>

\* the memo of the cached functions, and the state of the invocations that
\* run side by side with the client object they share
others == <<cache, procs, api_client>>

(***************************************************************************)
(* Bounds of the model.                                                    *)
(***************************************************************************)
\* at most this many optional filters are given in one call
MaxFilters == 1
\* longest list of well-formed records in an upstream payload
MaxItems == 2
\* HTTP clients constructed in one run of the process
MaxClients == 2

(***************************************************************************)
(* Program constants.                                                      *)
(***************************************************************************)
DefaultPage == 1
DefaultLimit == 20

(***************************************************************************)
(* Messages and markers (ASCII tokens for the source's literals).          *)
(***************************************************************************)
FAIL_MARK == "[X] "                          \* U+274C followed by a blank
OK_MARK == "[OK] "                           \* U+2705 followed by a blank
M_OK == "query ok"                           \* the success message of the client
M_API_FAILED == "API request failed: "       \* api_client.py:74, :97
M_HTTP == "API request failed: HTTP "        \* models.py:232, api_client.py:213
M_UNEXPECTED == "unexpected error: "         \* models.py:237, api_client.py:141
M_NOT_FOUND == "resource not found (404), check the parameters"  \* api_client.py:207
M_RATE_LIMITED == "too many requests (429), retry later"         \* api_client.py:209
M_SERVER_ERROR == "internal server error (500), service may be unavailable" \* api_client.py:211
M_TIMEOUT == "request timed out, service may be busy"            \* api_client.py:128
M_CONNECT == "connection error, check the network or the service" \* api_client.py:134
M_UNSUPPORTED == "unsupported API endpoint: "                    \* api_client.py:268
M_QUERY_FAILED == "query failed: "           \* direct_api.py:164

(***************************************************************************)
(* Values.  An optional field left unset (None) is a field that is not in  *)
(* the domain of the value mapping.                                        *)
(***************************************************************************)
IntFields == {"term", "session", "volume", "term_query"}

\* the two sample values of a field: a plain one and a falsy one
ValOf(field, variant) ==
    IF field \in IntFields
    THEN (IF variant = 1 THEN 11 ELSE 0)
    ELSE (IF variant = 1 THEN "v" ELSE "")

Falsy(field, v) == IF field \in IntFields THEN v = 0 ELSE v = ""

\* every assignment of values to at most MaxFilters of the fields F
FilterChoices(F) ==
    UNION { { [k \in S |-> ValOf(k, c[k])] : c \in [S -> {1, 2}] } :
            S \in { T \in SUBSET F : Cardinality(T) <= MaxFilters } }

PageLimits == { <<DefaultPage, DefaultLimit>>, <<0, 5>>, <<3, 50>> }
OutputFieldArgs == { "none", "some" }
\* resource identifiers, as the "/"-separated segments of the text
Ids == { <<"203110077970000">>, <<"invalid_bill_number">> }
BillNos == Ids \cup { <<"related">>, <<"meets">>, <<"a", "b">> }

(***************************************************************************)
(* The translation table of lymcp/translate.py: logical name to external   *)
(* query-parameter name, one external name per logical name.               *)
(***************************************************************************)
TranslateKeys ==
    { "term", "session", "bill_flow_status", "bill_type", "proposer",
      "co_proposer", "law_number", "bill_status", "meeting_code",
      "proposal_source", "bill_number", "proposal_number", "reference_number",
      "article_number", "proposal_date", "bill_no", "meeting_type", "date",
      "committee_type", "comt_cd", "member", "committee_code", "meet_id",
      "bill_no_nested", "law_number_nested", "gazette_id", "volume",
      "meeting_date", "gazette_agenda_id", "interpellation_member",
      "interpellation_id", "member_name", "meeting_code_data", "video_type",
      "ivod_id" }

translate == [k \in TranslateKeys |-> "ext_" \o k]

(***************************************************************************)
(* pydantic's model_dump(exclude_none=True, by_alias=True, exclude=...):   *)
(* the fields are visited in declaration order, a field that is None or    *)
(* excluded is skipped, and a later field overwrites an earlier one that   *)
(* is dumped under the same key.                                           *)
(***************************************************************************)
RECURSIVE model_dump_upto(_, _, _, _, _)
model_dump_upto(fields, vals, alias, exclude, i) ==
    IF i = 0 THEN <<>>
    ELSE LET prev == model_dump_upto(fields, vals, alias, exclude, i - 1)
             f == fields[i]
         IN  IF f \in DOMAIN vals /\ f \notin exclude
             THEN (alias[f] :> vals[f]) @@ prev
             ELSE prev

\* model_dump without exclude_none: an unset field is dumped with a null value
model_dump_keep_none(fields, vals, alias, exclude) ==
    model_dump_upto(fields, vals, alias, exclude, Len(fields))
        @@ [ k \in { alias[fields[i]] :
                       i \in { j \in 1..Len(fields) : fields[j] \notin exclude } }
               |-> "None" ]

model_dump(fields, vals, alias, exclude) ==
    model_dump_upto(fields, vals, alias, exclude, Len(fields))

\* the key of a field: its serialization alias, or its own name without one
AliasOf(fields, aliasKey) ==
    [f \in { fields[i] : i \in 1..Len(fields) } |->
        IF f \in DOMAIN aliasKey THEN translate[aliasKey[f]] ELSE f]

\* the fields of a class whose alias is translate[<own name>]
SelfAlias(F) == [f \in F |-> f]

Paging == <<"page", "limit">>
PagingOut == <<"page", "limit", "output_fields">>

(***************************************************************************)
(* The request models of lymcp/api.py.  fields: the declared fields in     *)
(* order; aliasKey: the translate key of every aliased field; exclude: the *)
(* fields left out of the dump; path: the URL below BASE_URL, where id is  *)
(* the path identifier; query: whether do() passes params at all.          *)
(***************************************************************************)
GetStatRequest ==
    [ fields |-> <<>>, aliasKey |-> <<>>, exclude |-> {}, idField |-> "",
      prefix |-> <<"stat">>, suffix |-> <<>>, query |-> FALSE ]

ListBillRequest ==
    [ fields |-> <<"term", "session", "bill_flow_status", "bill_type",
                   "proposer", "co_proposer", "law_number", "bill_status",
                   "meeting_code", "proposal_source", "bill_number",
                   "proposal_number", "reference_number", "article_number",
                   "proposal_date">> \o PagingOut,
      aliasKey |-> SelfAlias({"term", "session", "bill_flow_status",
                   "bill_type", "proposer", "co_proposer", "law_number",
                   "bill_status", "meeting_code", "proposal_source",
                   "bill_number", "proposal_number", "reference_number",
                   "article_number", "proposal_date"}),
      exclude |-> {}, idField |-> "",
      prefix |-> <<"bills">>, suffix |-> <<>>, query |-> TRUE ]

GetBillRequest ==
    [ fields |-> <<"bill_no">>, aliasKey |-> SelfAlias({"bill_no"}),
      exclude |-> {}, idField |-> "bill_no",
      prefix |-> <<"bills">>, suffix |-> <<>>, query |-> FALSE ]

GetBillMeetsRequest ==
    [ fields |-> <<"bill_no", "term", "session", "meeting_type", "date">>
                 \o Paging,
      aliasKey |-> SelfAlias({"bill_no", "term", "session", "meeting_type",
                              "date"}),
      exclude |-> {"bill_no"}, idField |-> "bill_no",
      prefix |-> <<"bills">>, suffix |-> <<"meets">>, query |-> TRUE ]

GetBillRelatedBillsRequest ==
    [ fields |-> <<"bill_no">> \o Paging,
      aliasKey |-> SelfAlias({"bill_no"}),
      exclude |-> {"bill_no"}, idField |-> "bill_no",
      prefix |-> <<"bills">>, suffix |-> <<"related_bills">>, query |-> TRUE ]

GetBillDocHtmlRequest ==
    [ fields |-> <<"bill_no">>, aliasKey |-> SelfAlias({"bill_no"}),
      exclude |-> {}, idField |-> "bill_no",
      prefix |-> <<"bills">>, suffix |-> <<"doc_html">>, query |-> FALSE ]

ListCommitteesRequest ==
    [ fields |-> <<"committee_type", "comt_cd">> \o PagingOut,
      aliasKey |-> SelfAlias({"committee_type", "comt_cd"}),
      exclude |-> {}, idField |-> "",
      prefix |-> <<"committees">>, suffix |-> <<>>, query |-> TRUE ]

GetCommitteeRequest ==
    [ fields |-> <<"comt_cd">>, aliasKey |-> SelfAlias({"comt_cd"}),
      exclude |-> {}, idField |-> "comt_cd",
      prefix |-> <<"committees">>, suffix |-> <<>>, query |-> FALSE ]

GetCommitteeMeetsRequest ==
    [ fields |-> <<"comt_cd", "term", "meeting_code", "session",
                   "meeting_type", "member", "date", "committee_code",
                   "meet_id", "bill_no", "law_number">> \o PagingOut,
      aliasKey |-> ("bill_no" :> "bill_no_nested")
                   @@ ("law_number" :> "law_number_nested")
                   @@ SelfAlias({"comt_cd", "term", "meeting_code", "session",
                                 "meeting_type", "member", "date",
                                 "committee_code", "meet_id"}),
      exclude |-> {"comt_cd"}, idField |-> "comt_cd",
      prefix |-> <<"committees">>, suffix |-> <<"meets">>, query |-> TRUE ]

ListGazettesRequest ==
    [ fields |-> <<"gazette_id", "volume">> \o PagingOut,
      aliasKey |-> SelfAlias({"gazette_id", "volume"}),
      exclude |-> {}, idField |-> "",
      prefix |-> <<"gazettes">>, suffix |-> <<>>, query |-> TRUE ]

GetGazetteRequest ==
    [ fields |-> <<"gazette_id">>, aliasKey |-> SelfAlias({"gazette_id"}),
      exclude |-> {}, idField |-> "gazette_id",
      prefix |-> <<"gazettes">>, suffix |-> <<>>, query |-> FALSE ]

GetGazetteAgendasRequest ==
    [ fields |-> <<"gazette_id", "volume", "term", "meeting_date">>
                 \o PagingOut,
      aliasKey |-> SelfAlias({"gazette_id", "volume", "term", "meeting_date"}),
      exclude |-> {"gazette_id"}, idField |-> "gazette_id",
      prefix |-> <<"gazettes">>, suffix |-> <<"agendas">>, query |-> TRUE ]

ListGazetteAgendasRequest ==
    [ fields |-> <<"gazette_id", "volume", "term", "meeting_date">>
                 \o PagingOut,
      aliasKey |-> SelfAlias({"gazette_id", "volume", "term", "meeting_date"}),
      exclude |-> {}, idField |-> "",
      prefix |-> <<"gazette_agendas">>, suffix |-> <<>>, query |-> TRUE ]

GetGazetteAgendaRequest ==
    [ fields |-> <<"gazette_agenda_id">>,
      aliasKey |-> SelfAlias({"gazette_agenda_id"}),
      exclude |-> {}, idField |-> "gazette_agenda_id",
      prefix |-> <<"gazette_agendas">>, suffix |-> <<>>, query |-> FALSE ]

ListInterpellationsRequest ==
    [ fields |-> <<"interpellation_member", "term", "session",
                   "meeting_code">> \o PagingOut,
      aliasKey |-> SelfAlias({"interpellation_member", "term", "session",
                              "meeting_code"}),
      exclude |-> {}, idField |-> "",
      prefix |-> <<"interpellations">>, suffix |-> <<>>, query |-> TRUE ]

GetInterpellationRequest ==
    [ fields |-> <<"interpellation_id">>,
      aliasKey |-> SelfAlias({"interpellation_id"}),
      exclude |-> {}, idField |-> "interpellation_id",
      prefix |-> <<"interpellations">>, suffix |-> <<>>, query |-> FALSE ]

\* the path is /legislators/{term}/{name}/interpellations (api.py:271)
GetLegislatorInterpellationsRequest ==
    [ fields |-> <<"term", "name", "interpellation_member", "term_query",
                   "session", "meeting_code">> \o PagingOut,
      aliasKey |-> ("term_query" :> "term")
                   @@ SelfAlias({"term", "interpellation_member", "session",
                                 "meeting_code"}),
      exclude |-> {"term", "name"}, idField |-> "name",
      prefix |-> <<"legislators">>, suffix |-> <<"interpellations">>,
      query |-> TRUE ]

(***************************************************************************)
(* The IVOD request models, which server.py imports from lymcp/api.py and  *)
(* tests/test_api.py exercises: the fields are those the tools pass.       *)
(***************************************************************************)
IvodFilters ==
    <<"term", "session", "meeting_code", "member_name", "committee_code",
      "meeting_code_data", "date", "video_type">>

ListIvodsRequest ==
    [ fields |-> IvodFilters \o PagingOut,
      aliasKey |-> SelfAlias({"term", "session", "meeting_code",
                   "member_name", "committee_code", "meeting_code_data",
                   "date", "video_type"}),
      exclude |-> {}, idField |-> "",
      prefix |-> <<"ivods">>, suffix |-> <<>>, query |-> TRUE ]

GetIvodRequest ==
    [ fields |-> <<"ivod_id">>, aliasKey |-> SelfAlias({"ivod_id"}),
      exclude |-> {}, idField |-> "ivod_id",
      prefix |-> <<"ivods">>, suffix |-> <<>>, query |-> FALSE ]

GetMeetIvodsRequest ==
    [ fields |-> <<"meet_id">> \o IvodFilters \o PagingOut,
      aliasKey |-> SelfAlias({"meet_id", "term", "session", "meeting_code",
                   "member_name", "committee_code", "meeting_code_data",
                   "date", "video_type"}),
      exclude |-> {"meet_id"}, idField |-> "meet_id",
      prefix |-> <<"meets">>, suffix |-> <<"ivods">>, query |-> TRUE ]

(***************************************************************************)
(* The upstream: a JSON payload is an object (with or without a "data"     *)
(* key), a list, a scalar or null; a list holds well-formed records "rec"  *)
(* or an item "bad" that is not an object.                                 *)
(***************************************************************************)
ItemLists == { [i \in 1..n |-> "rec"] : n \in 0..MaxItems } \cup { <<"bad">> }

Payload(type, hasData, dataType, items) ==
    [ type |-> type, hasData |-> hasData, dataType |-> dataType,
      items |-> items ]

NoPayload == Payload("none", FALSE, "none", <<>>)

\* the key under which a record of a bill names the bill: the external name
\* of bill_no (the alias of Bill.bill_no), or another spelling
RecordKeys == {"ext_bill_number", "billNo"}

Payloads ==
    { Payload("object", TRUE, "list", s) : s \in ItemLists }
    \cup { Payload("object", TRUE, d, <<>>) :
           d \in {"null", "scalar", "object"} }
    \cup { Payload("object", FALSE, "none", <<>>) }
    \cup { Payload("object", TRUE, "object", <<k>>) : k \in RecordKeys }
    \cup { Payload("object", FALSE, "none", <<"ext_bill_number">>) }
    \cup { Payload("list", FALSE, "none", s) : s \in ItemLists }
    \cup { Payload(t, FALSE, "none", <<>>) : t \in {"scalar", "null"} }

StatusCodes == { 400, 404, 429, 500, 503 }

\* what the single GET resolves to
Outcomes ==
    { [kind |-> "ok", code |-> 200, body |-> b] : b \in Payloads }
    \cup { [kind |-> "status", code |-> c, body |-> NoPayload] :
           c \in StatusCodes }
    \cup { [kind |-> k, code |-> 0, body |-> NoPayload] :
           k \in {"timeout", "connect", "not_json"} }

NoOutcome == [kind |-> "none", code |-> 0, body |-> NoPayload]

(***************************************************************************)
(* Exceptions: type, HTTP status (0 when there is none) and str(e).        *)
(***************************************************************************)
Exc(type, code, msg) == [type |-> type, code |-> code, msg |-> msg]
NoExc == Exc("", 0, <<>>)

Return(v) == [ok |-> TRUE, value |-> v, exc |-> NoExc]
Raise(e) == [ok |-> FALSE, value |-> NoPayload, exc |-> e]

\* the classes an exception type is an instance of
Bases(type) ==
    CASE type = "HTTPStatusError" ->
           {"HTTPStatusError", "HTTPError", "Exception"}
      [] type \in {"TimeoutException", "ConnectError"} ->
           {type, "TransportError", "HTTPError", "Exception"}
      [] OTHER -> {type, "Exception"}

IsInstance(e, cls) == cls \in Bases(e.type)

\* what httpx raises, or the parsed body, for an upstream outcome:
\* client.get(), resp.raise_for_status(), resp.json()
HttpxGetJson(o) ==
    CASE o.kind = "ok" -> Return(o.body)
      [] o.kind = "status" ->
           Raise(Exc("HTTPStatusError", o.code,
                     <<"status error ", ToString(o.code)>>))
      [] o.kind = "timeout" -> Raise(Exc("TimeoutException", 0, <<>>))
      [] o.kind = "connect" ->
           Raise(Exc("ConnectError", 0, <<"All connection attempts failed">>))
      [] o.kind = "not_json" ->
           Raise(Exc("JSONDecodeError", 0, <<"Expecting value">>))

(***************************************************************************)
(* lymcp/api.py make_api_request: one GET when the method is GET, then     *)
(* raise_for_status and json; any other method raises before a request.    *)
(***************************************************************************)
\* str.upper on the method names that are passed
upper(method) == IF method = "get" THEN "GET" ELSE method

Methods == {"GET", "get", "POST"}

\* make_api_request with a second attempt after the first GET
make_api_request_gets_retry(method) == IF upper(method) = "GET" THEN 2 ELSE 0

make_api_request_gets(method) == IF upper(method) = "GET" THEN 1 ELSE 0

make_api_request(method, o) ==
    IF upper(method) = "GET"
    THEN HttpxGetJson(o)
    ELSE Raise(Exc("ValueError", 0, <<"Unsupported HTTP method: ", method>>))

(***************************************************************************)
(* Invocations, requests and results.                                      *)
(***************************************************************************)
Args(f, pl, of, id, term, valid) ==
    [ f |-> f, page |-> pl[1], limit |-> pl[2], of |-> of, id |-> id,
      term |-> term, valid |-> valid ]

NoArgs == Args(<<>>, <<DefaultPage, DefaultLimit>>, "none", <<>>, 0, TRUE)
NoInv == [tool |-> "none", a |-> NoArgs]

Req(path, params) == [sent |-> TRUE, path |-> path, params |-> params]
NoReq == [sent |-> FALSE, path |-> <<>>, params |-> <<>>]

\* what an invocation hands back to its caller: a string (prefix, message
\* text and serialized body) or a propagated exception
Str(prefix, msg, body) ==
    [ kind |-> "str", raised |-> FALSE, exc |-> "", prefix |-> prefix,
      msg |-> msg, body |-> body ]
Propagate(e) ==
    [ kind |-> "exception", raised |-> TRUE, exc |-> e.type, prefix |-> "",
      msg |-> e.msg, body |-> NoPayload ]
\* an APIResponse or a response model handed back as an object
Obj(kind) ==
    [ kind |-> kind, raised |-> FALSE, exc |-> "", prefix |-> "",
      msg |-> <<>>, body |-> NoPayload ]
NoResult ==
    [ kind |-> "none", raised |-> FALSE, exc |-> "", prefix |-> "",
      msg |-> <<>>, body |-> NoPayload ]

\* the value of the tool argument output_fields
OutputFields(of) == IF of = "some" THEN <<"f1">> ELSE <<>>

(***************************************************************************)
(* The tools of lymcp/server.py: each builds its request model, awaits     *)
(* do() and returns json.dumps of the reply, all inside                    *)
(* try ... except Exception, which returns the tool's message.             *)
(***************************************************************************)
ServerTool(cls, filters, rename, fail) ==
    [cls |-> cls, filters |-> filters, rename |-> rename, fail |-> fail]

OptionalOf(cls) ==
    { cls.fields[i] : i \in 1..Len(cls.fields) }
        \ ({cls.idField, "page", "limit", "output_fields"} \cup cls.exclude)

Plain(cls, fail) == ServerTool(cls, OptionalOf(cls), <<>>, fail)

ServerTools ==
    ("server.get_stat" :> Plain(GetStatRequest, "Failed to get statistics, got: "))
    @@ ("server.list_bills" :>
          ServerTool(ListBillRequest,
                     (OptionalOf(ListBillRequest) \ {"co_proposer"})
                         \cup {"cosigner"},
                     "cosigner" :> "co_proposer",
                     "Failed to list bills, got: "))
    @@ ("server.get_bill" :> Plain(GetBillRequest, "Failed to get bill detail, got: "))
    @@ ("server.get_bill_related_bills" :>
          Plain(GetBillRelatedBillsRequest, "Failed to get bill related bills, got: "))
    @@ ("server.get_bill_meets" :> Plain(GetBillMeetsRequest, "Failed to get bill meets, got: "))
    @@ ("server.get_bill_doc_html" :> Plain(GetBillDocHtmlRequest, "Failed to get bill doc html, got: "))
    @@ ("server.list_committees" :> Plain(ListCommitteesRequest, "Failed to list committees, got: "))
    @@ ("server.get_committee" :> Plain(GetCommitteeRequest, "Failed to get committee, got: "))
    @@ ("server.get_committee_meets" :> Plain(GetCommitteeMeetsRequest, "Failed to get committee meets, got: "))
    @@ ("server.list_gazettes" :> Plain(ListGazettesRequest, "Failed to list gazettes, got: "))
    @@ ("server.get_gazette" :> Plain(GetGazetteRequest, "Failed to get gazette detail, got: "))
    @@ ("server.get_gazette_agendas" :> Plain(GetGazetteAgendasRequest, "Failed to get gazette agendas, got: "))
    @@ ("server.list_gazette_agendas" :> Plain(ListGazetteAgendasRequest, "Failed to list gazette agendas, got: "))
    @@ ("server.get_gazette_agenda" :> Plain(GetGazetteAgendaRequest, "Failed to get gazette agenda detail, got: "))
    @@ ("server.list_interpellations" :> Plain(ListInterpellationsRequest, "Failed to list interpellations, got: "))
    @@ ("server.get_interpellation" :> Plain(GetInterpellationRequest, "Failed to get interpellation detail, got: "))
    @@ ("server.get_legislator_interpellations" :>
          ServerTool(GetLegislatorInterpellationsRequest,
                     {"interpellation_member", "session", "meeting_code"},
                     <<>>,
                     "Failed to get legislator interpellations, got: "))
    @@ ("server.list_ivods" :> Plain(ListIvodsRequest, "Failed to list IVODs, got: "))
    @@ ("server.get_ivod" :> Plain(GetIvodRequest, "Failed to get IVOD detail, got: "))
    @@ ("server.get_meet_ivods" :> Plain(GetMeetIvodsRequest, "Failed to get meet IVODs, got: "))

ServerToolNames == DOMAIN ServerTools

HasField(cls, f) == \E i \in 1..Len(cls.fields) : cls.fields[i] = f

\* the keyword arguments the tool passes to its request model
ServerRequestVals(tool, a) ==
    LET t == ServerTools[tool]
        cls == t.cls
        filters == [ k \in { IF x \in DOMAIN t.rename THEN t.rename[x] ELSE x :
                             x \in DOMAIN a.f } |->
                     LET x == CHOOSE y \in DOMAIN a.f :
                                 (IF y \in DOMAIN t.rename THEN t.rename[y]
                                  ELSE y) = k
                     IN  a.f[x] ]
        paging == IF HasField(cls, "page")
                  THEN ("page" :> a.page) @@ ("limit" :> a.limit) ELSE <<>>
        outf == IF HasField(cls, "output_fields")
                THEN "output_fields" :> OutputFields(a.of) ELSE <<>>
        ident == IF cls.idField # "" THEN cls.idField :> a.id ELSE <<>>
        legis == IF tool = "server.get_legislator_interpellations"
                 THEN ("term" :> a.term) @@ ("term_query" :> a.term) ELSE <<>>
    IN  legis @@ ident @@ filters @@ paging @@ outf

\* the URL below BASE_URL that do() requests
RequestPath(tool, a) ==
    LET cls == ServerTools[tool].cls
        idsegs == IF cls.idField # "" THEN a.id ELSE <<>>
        pre == IF tool = "server.get_legislator_interpellations"
               THEN cls.prefix \o <<ToString(a.term)>> ELSE cls.prefix
    IN  pre \o idsegs \o cls.suffix

\* do() of the request model: the params of its make_api_request call
RequestParams(tool, a) ==
    LET cls == ServerTools[tool].cls
    IN  IF cls.query
        THEN model_dump(cls.fields, ServerRequestVals(tool, a),
                        AliasOf(cls.fields, cls.aliasKey), cls.exclude)
        ELSE <<>>

ValidationError == Exc("ValidationError", 0, <<"validation error">>)

\* try: ... return json.dumps(resp) / except Exception as e: return msg
\* a tool whose except clause names httpx.HTTPError instead of Exception
ServerToolResult_HTTPErrorOnly(tool, ret) ==
    IF ret.ok THEN Str("", <<>>, ret.value)
    ELSE IF IsInstance(ret.exc, "HTTPError")
         THEN Str(ServerTools[tool].fail, ret.exc.msg, NoPayload)
         ELSE Propagate(ret.exc)

\* a tool whose except clause logs the message and falls off the end
ServerToolResult_NoReturnOnError(tool, ret) ==
    IF ret.ok THEN Str("", <<>>, ret.value) ELSE NoResult

ServerToolResult(tool, ret) ==
    IF ret.ok THEN Str("", <<>>, ret.value)
    ELSE IF IsInstance(ret.exc, "Exception")
         THEN Str(ServerTools[tool].fail, ret.exc.msg, NoPayload)
         ELSE Propagate(ret.exc)

ServerArgs(tool) ==
    LET t == ServerTools[tool]
        cls == t.cls
        fs == FilterChoices(t.filters)
        pls == IF HasField(cls, "page") THEN PageLimits
               ELSE { <<DefaultPage, DefaultLimit>> }
        ofs == IF HasField(cls, "output_fields") THEN OutputFieldArgs
               ELSE { "none" }
        ids == IF cls.idField # "" THEN Ids ELSE { <<>> }
        terms == IF tool = "server.get_legislator_interpellations"
                 THEN { 11 } ELSE { 0 }
    IN  { Args(f, pl, of, id, term, TRUE) :
            f \in fs, pl \in pls, of \in ofs, id \in ids, term \in terms }
        \cup { Args(<<>>, <<DefaultPage, DefaultLimit>>, "none",
                    CHOOSE id \in ids : TRUE, CHOOSE term \in terms : TRUE,
                    FALSE) }

(***************************************************************************)
(* The tools of mcpservertemplate/server.py: the query is built by hand,   *)
(* term and session are kept unless None, the other filters unless falsy;  *)
(* the reply text is returned unparsed and only httpx.HTTPError is caught. *)
(***************************************************************************)
TemplateTool(notNone, truthy, key, prefix, suffix, paging, ident, fail) ==
    [ notNone |-> notNone, truthy |-> truthy, key |-> key, prefix |-> prefix,
      suffix |-> suffix, paging |-> paging, ident |-> ident, fail |-> fail ]

TemplateTools ==
    ("template.search_bills" :>
        TemplateTool({"term", "session"},
                     {"bill_category", "proposer", "cosigner", "bill_status",
                      "proposal_source", "bill_no"},
                     ("term" :> "ext_term") @@ ("session" :> "ext_session")
                     @@ ("bill_category" :> "ext_bill_type")
                     @@ ("proposer" :> "ext_proposer")
                     @@ ("cosigner" :> "ext_co_proposer")
                     @@ ("bill_status" :> "ext_bill_status")
                     @@ ("proposal_source" :> "ext_proposal_source")
                     @@ ("bill_no" :> "ext_bill_number"),
                     <<"bills">>, <<>>, TRUE, FALSE,
                     "Error fetching bills: "))
    @@ ("template.get_bill_detail" :>
        TemplateTool({}, {}, <<>>, <<"bills">>, <<>>, FALSE, TRUE,
                     "Error fetching bill detail: "))
    @@ ("template.get_bill_related_bills" :>
        TemplateTool({}, {}, <<>>, <<"bills">>, <<"related_bills">>, FALSE,
                     TRUE, "Error fetching related bills: "))
    @@ ("template.get_bill_doc_html" :>
        TemplateTool({}, {}, <<>>, <<"bills">>, <<"doc_html">>, FALSE, TRUE,
                     "Error fetching bill document HTML: "))
    @@ ("template.get_bill_meets" :>
        TemplateTool({"term", "session"}, {"meeting_type", "date"},
                     ("term" :> "ext_term") @@ ("session" :> "ext_session")
                     @@ ("meeting_type" :> "ext_meeting_type")
                     @@ ("date" :> "ext_date"),
                     <<"bills">>, <<"meets">>, TRUE, TRUE,
                     "Error fetching bill meetings: "))

TemplateToolNames == DOMAIN TemplateTools

\* params = {"page": page, "limit": limit}; if x is not None / if x: ...
TemplateParams(tool, a) ==
    LET t == TemplateTools[tool]
        kept == { x \in DOMAIN a.f :
                    \/ x \in t.notNone
                    \/ x \in t.truthy /\ ~Falsy(x, a.f[x]) }
        filters == [ k \in { t.key[x] : x \in kept } |->
                     a.f[CHOOSE x \in kept : t.key[x] = k] ]
    IN  IF t.paging
        THEN filters @@ ("page" :> a.page) @@ ("limit" :> a.limit)
        ELSE <<>>

TemplatePath(tool, a) ==
    LET t == TemplateTools[tool]
    IN  t.prefix \o (IF t.ident THEN a.id ELSE <<>>) \o t.suffix

\* client.get(), raise_for_status(), response.text
HttpxGetText(o) ==
    IF o.kind = "not_json" THEN Return(NoPayload) ELSE HttpxGetJson(o)

\* try: ... return response.text / except httpx.HTTPError as e: return ...
TemplateToolResult(tool, ret) ==
    IF ret.ok THEN Str("", <<>>, ret.value)
    ELSE IF IsInstance(ret.exc, "HTTPError")
         THEN Str(TemplateTools[tool].fail, ret.exc.msg, NoPayload)
         ELSE Propagate(ret.exc)

TemplateArgs(tool) ==
    LET t == TemplateTools[tool]
    IN  { Args(f, pl, "none", id, 0, TRUE) :
            f \in FilterChoices(t.notNone \cup t.truthy),
            pl \in (IF t.paging THEN PageLimits
                    ELSE { <<DefaultPage, DefaultLimit>> }),
            id \in (IF t.ident THEN Ids ELSE { <<>> }) }

(***************************************************************************)
(* The request models of lymcp/models.py.                                  *)
(***************************************************************************)
SearchBillsFields ==
    <<"term", "session", "bill_category", "proposer", "cosigner",
      "bill_status", "proposal_source", "bill_no", "proposal_date_start",
      "proposal_date_end", "page", "limit">>

SearchBillsFilters ==
    { SearchBillsFields[i] : i \in 1..Len(SearchBillsFields) }
        \ {"page", "limit"}

BillMeetsFilters == {"term", "session", "meeting_type", "date"}

\* SearchBillsRequest._build_params: model_dump() without the None fields
SearchBillsRequest_build_params(a) ==
    model_dump(SearchBillsFields,
               a.f @@ ("page" :> a.page) @@ ("limit" :> a.limit),
               [f \in SearchBillsFilters \cup {"page", "limit"} |-> f], {})

\* GetBillRelatedBillsRequest.async_do: params and URL
GetBillRelatedBillsRequest_params(a) ==
    ("page" :> a.page) @@ ("limit" :> a.limit)

\* GetBillMeetsRequest.async_do: term and session are sent as str(...)
GetBillMeetsRequest_params(a) ==
    LET conv == [ k \in DOMAIN a.f \cap BillMeetsFilters |->
                    IF k \in {"term", "session"} THEN ToString(a.f[k])
                    ELSE a.f[k] ]
    IN  ("page" :> a.page) @@ ("limit" :> a.limit) @@ conv

\* the reply normalizer of the listing models:
\* data["data"] if it is a dict with "data", data if it is a list, else []
Normalize(data) ==
    IF data.type = "object" /\ data.hasData
    THEN [type |-> data.dataType, items |-> data.items]
    ELSE IF data.type = "list"
         THEN [type |-> "list", items |-> data.items]
         ELSE [type |-> "list", items |-> <<>>]

\* [Model.model_validate(x) for x in rows]
ValidateAll(rows) ==
    IF rows.type \in {"null", "scalar"}
    THEN Raise(Exc("TypeError", 0, <<"object is not iterable">>))
    ELSE IF rows.type = "object"
              \/ \E i \in 1..Len(rows.items) : rows.items[i] # "rec"
         THEN Raise(ValidationError)
         ELSE Return(rows.items)

\* the two except clauses that end every async_do of models.py
ModelsExcept(ret) ==
    IF ret.ok THEN ret
    ELSE IF IsInstance(ret.exc, "HTTPStatusError")
         THEN Raise(Exc("HTTPStatusError", ret.exc.code,
                        <<M_HTTP, ToString(ret.exc.code)>>))
         ELSE IF IsInstance(ret.exc, "Exception")
              THEN Raise(Exc("RuntimeError", 0, <<M_UNEXPECTED>> \o ret.exc.msg))
              ELSE ret

\* the body of async_do of the three listing models, after the GET
ListingAsyncDo(a, o) ==
    LET got == HttpxGetJson(o)
        rows == IF got.ok THEN ValidateAll(Normalize(got.value)) ELSE got
    IN  ModelsExcept(
            IF rows.ok
            THEN Return([ items |-> rows.value, total |-> Len(rows.value),
                          page |-> a.page, limit |-> a.limit ])
            ELSE rows)

\* GetBillDetailRequest.async_do: unwrap "data", then BillDetail.model_validate
\* BillDetail.model_validate(data): every field is optional and unknown keys
\* are ignored, so bill_no is set exactly when data has the alias of bill_no
BillDetail_model_validate(isDict, keys) ==
    IF isDict
    THEN Return([ bill_no |-> IF \E i \in 1..Len(keys) :
                                    keys[i] = "ext_bill_number"
                             THEN "set" ELSE "None" ])
    ELSE Raise(ValidationError)

\* async_do that validates the reply without unwrapping "data"
GetBillDetailRequest_async_do_NoUnwrap(o) ==
    LET got == HttpxGetJson(o)
    IN  ModelsExcept(
            IF ~got.ok THEN got
            ELSE BillDetail_model_validate(
                     got.value.type = "object",
                     IF got.value.hasData THEN <<>> ELSE got.value.items))

GetBillDetailRequest_async_do(o) ==
    LET got == HttpxGetJson(o)
        isDict == /\ got.value.type = "object"
                  /\ got.value.hasData => got.value.dataType = "object"
    IN  ModelsExcept(
            IF ~got.ok THEN got
            ELSE BillDetail_model_validate(isDict, got.value.items))

(***************************************************************************)
(* lymcp/api_client.py: the APIResponse envelope and the client.           *)
(***************************************************************************)
NoneInt == -1

APIResponse(success, message, data, total, page, limit) ==
    [ made |-> TRUE, success |-> success, message |-> message, data |-> data,
      total |-> total, page |-> page, limit |-> limit ]

NullData == [kind |-> "null", items |-> <<>>]
ListData(items) == [kind |-> "list", items |-> items]
\* bill_detail.model_dump(by_alias=True): every field under its alias, the
\* unset ones with null; the pair kept is the alias of bill_no and its value
RecordData(bill) == [kind |-> "record", items |-> <<"ext_bill_number", bill.bill_no>>]

NoEnvelope ==
    [ made |-> FALSE, success |-> TRUE, message |-> <<>>, data |-> NullData,
      total |-> NoneInt, page |-> NoneInt, limit |-> NoneInt ]

\* a failure envelope that carries an empty list instead of null
Failure_EmptyList(message) ==
    APIResponse(FALSE, message, ListData(<<>>), NoneInt, NoneInt, NoneInt)

Failure(message) == APIResponse(FALSE, message, NullData, NoneInt, NoneInt, NoneInt)

_handle_http_error(e) ==
    Failure(CASE e.code = 404 -> <<M_NOT_FOUND>>
              [] e.code = 429 -> <<M_RATE_LIMITED>>
              [] e.code = 500 -> <<M_SERVER_ERROR>>
              [] OTHER -> <<M_HTTP, ToString(e.code)>>)

\* a listing envelope whose total is the page size asked for
ListingSuccess_TotalIsLimit(v) ==
    APIResponse(TRUE, <<M_OK>>, ListData(v.items), v.limit, v.page, v.limit)

ListingSuccess(v) ==
    APIResponse(TRUE, <<M_OK>>, ListData(v.items), v.total, v.page, v.limit)

\* search_bills and get_bill_detail: one except Exception clause
CatchAll(ret, success) ==
    IF ret.ok THEN success
    ELSE IF IsInstance(ret.exc, "Exception")
         THEN Failure(<<M_API_FAILED>> \o ret.exc.msg)
         ELSE NoEnvelope

\* get_bill_related_bills and get_bill_meets: the chain of except clauses
CatchChain(ret, success) ==
    IF ret.ok THEN success
    ELSE IF IsInstance(ret.exc, "HTTPStatusError")
         THEN _handle_http_error(ret.exc)
    ELSE IF IsInstance(ret.exc, "TimeoutException")
         THEN Failure(<<M_TIMEOUT>>)
    ELSE IF IsInstance(ret.exc, "ConnectError")
         THEN Failure(<<M_CONNECT>>)
    ELSE IF IsInstance(ret.exc, "Exception")
         THEN Failure(<<M_UNEXPECTED>> \o ret.exc.msg)
    ELSE NoEnvelope

ClientOps ==
    {"search_bills", "get_bill_detail", "get_bill_related_bills",
     "get_bill_meets"}

\* the envelope a client operation returns once async_do has ended in ret
ClientEnvelope(op, ret) ==
    CASE op = "search_bills" -> CatchAll(ret, ListingSuccess(ret.value))
      [] op = "get_bill_detail" ->
           CatchAll(ret, APIResponse(TRUE, <<M_OK>>, RecordData(ret.value),
                                     NoneInt, NoneInt, NoneInt))
      [] op = "get_bill_related_bills" ->
           CatchChain(ret, ListingSuccess(ret.value))
      [] op = "get_bill_meets" -> CatchChain(ret, ListingSuccess(ret.value))

\* async_do of the request model behind a client operation
ClientAsyncDo(op, a, o) ==
    IF op = "get_bill_detail" THEN GetBillDetailRequest_async_do(o)
    ELSE ListingAsyncDo(a, o)

\* the URL and params of the request model behind a client operation
ClientRequest(op, a) ==
    CASE op = "search_bills" ->
           Req(<<"bills">>, SearchBillsRequest_build_params(a))
      [] op = "get_bill_detail" -> Req(<<"bills">> \o a.id, <<>>)
      [] op = "get_bill_related_bills" ->
           Req(<<"bills">> \o a.id \o <<"related">>,
               GetBillRelatedBillsRequest_params(a))
      [] op = "get_bill_meets" ->
           Req(<<"bills">> \o a.id \o <<"meets">>,
               GetBillMeetsRequest_params(a))

(***************************************************************************)
(* api_client.make_api_request: the dispatcher on the endpoint text.  An   *)
(* endpoint is the sequence of its segments after the leading "/".         *)
(***************************************************************************)
StartsWithBills(endpoint) == Len(endpoint) >= 2 /\ endpoint[1] = "bills"
EndsWith(endpoint, seg) == endpoint[Len(endpoint)] = seg

Plan(op, a) == [op |-> op, a |-> a]

\* the keyword arguments of a call f(**params): a key f does not accept
\* raises TypeError before the call
Kwargs(params, accepted, id) ==
    IF DOMAIN params \subseteq accepted \cup {"page", "limit"}
    THEN Plan("",
              Args([k \in DOMAIN params \ {"page", "limit"} |-> params[k]],
                   << IF "page" \in DOMAIN params THEN params["page"]
                      ELSE DefaultPage,
                      IF "limit" \in DOMAIN params THEN params["limit"]
                      ELSE DefaultLimit >>,
                   "none", id, 0, TRUE))
    ELSE Plan("type_error", NoArgs)

Dispatch(endpoint, params) ==
    IF endpoint = <<"bills">>
    THEN LET k == Kwargs(params, SearchBillsFilters, <<>>)
         IN  IF k.op = "type_error" THEN k ELSE Plan("search_bills", k.a)
    ELSE IF StartsWithBills(endpoint) /\ EndsWith(endpoint, "related")
    THEN Plan("get_bill_related_bills",
              Args(<<>>,
                   << IF "page" \in DOMAIN params THEN params["page"]
                      ELSE DefaultPage,
                      IF "limit" \in DOMAIN params THEN params["limit"]
                      ELSE DefaultLimit >>,
                   "none", <<endpoint[2]>>, 0, TRUE))
    ELSE IF StartsWithBills(endpoint) /\ EndsWith(endpoint, "meets")
    THEN LET k == Kwargs(params, BillMeetsFilters, <<endpoint[2]>>)
         IN  IF k.op = "type_error" THEN k ELSE Plan("get_bill_meets", k.a)
    ELSE IF StartsWithBills(endpoint) /\ Len(endpoint) = 2
    THEN Plan("get_bill_detail",
              Args(<<>>, <<DefaultPage, DefaultLimit>>, "none",
                   <<endpoint[2]>>, 0, TRUE))
    ELSE Plan("unsupported", NoArgs)

(***************************************************************************)
(* The tools of lymcp/tools: they format an APIResponse, or the response   *)
(* model of direct_api, as a marked string.                                *)
(***************************************************************************)
TruncateLimit == 20000
KeptChars == 15000
\* the serialized size of one record of a result set
ItemChars == 9000
M_TRUNCATED == "content too large, truncated"      \* bill_detail.py:56-57
M_NO_CONTENT == "no document HTML content yet"     \* bill_detail.py:85-91
M_NO_CONTENT_EMPTY == "no document content available" \* bill_detail.py:96

\* json.dumps(api_response.data): the data as a payload, and its length
DataPayload(data) ==
    CASE data.kind = "null" -> Payload("null", FALSE, "none", <<>>)
      [] data.kind = "list" -> Payload("list", FALSE, "none", data.items)
      [] data.kind = "record" -> Payload("object", FALSE, "none", data.items)

DataChars(data) == 2 + Len(data.items) * ItemChars

\* the common ending of the tools: failure mark and message, or success
\* mark, message and the serialized data
\* a formatter that never looks at the success flag
MarkedString_IgnoresSuccess(env) ==
    Str(OK_MARK, env.message, DataPayload(env.data))

MarkedString(env) ==
    IF ~env.success THEN Str(FAIL_MARK, env.message, NoPayload)
    ELSE Str(OK_MARK, env.message, DataPayload(env.data))

\* data_str[:15000]: the records that fit whole into the kept prefix
Truncated(data) ==
    Payload("truncated", FALSE, "none",
            SubSeq(data.items, 1, KeptChars \div ItemChars))

tools_get_bill_related_bills(env) ==
    IF ~env.success THEN Str(FAIL_MARK, env.message, NoPayload)
    ELSE IF DataChars(env.data) > TruncateLimit
         THEN Str(OK_MARK, env.message \o <<M_TRUNCATED>>, Truncated(env.data))
         ELSE Str(OK_MARK, env.message, DataPayload(env.data))

tools_get_bill_doc_html(env) ==
    IF ~env.success THEN Str(FAIL_MARK, env.message, NoPayload)
    ELSE IF env.data.kind = "null" THEN Str("", <<M_NO_CONTENT>>, NoPayload)
    ELSE IF env.data.kind = "list" /\ env.data.items = <<>>
         THEN Str("", <<M_NO_CONTENT_EMPTY>>, NoPayload)
    ELSE Str(OK_MARK, env.message, DataPayload(env.data))

\* direct_api.get_bill_meets_json, which tools/bill_meets.py returns
get_bill_meets_json(ret) ==
    IF ret.ok THEN Str(OK_MARK, <<M_OK>>, DataPayload(ListData(ret.value.items)))
    ELSE IF IsInstance(ret.exc, "Exception")
         THEN Str(FAIL_MARK, <<M_QUERY_FAILED>> \o ret.exc.msg, NoPayload)
         ELSE Propagate(ret.exc)

ClientToolNames ==
    { "client.search_bills", "client.get_bill_detail",
      "client.get_bill_related_bills", "client.get_bill_meets",
      "api_client.make_api_request", "tools.search_bills",
      "tools.get_bill_detail", "tools.get_bill_related_bills",
      "tools.get_bill_doc_html" }

\* the client operation an entry point runs, with its arguments
ClientPlan(tool, a) ==
    CASE tool = "client.search_bills" -> Plan("search_bills", a)
      [] tool = "client.get_bill_detail" -> Plan("get_bill_detail", a)
      [] tool = "client.get_bill_related_bills" ->
           Plan("get_bill_related_bills", a)
      [] tool = "client.get_bill_meets" -> Plan("get_bill_meets", a)
      [] tool = "tools.search_bills" -> Plan("search_bills", a)
      [] tool = "api_client.make_api_request" -> Dispatch(a.id, a.f)
      [] tool = "tools.get_bill_detail" -> Dispatch(<<"bills">> \o a.id, <<>>)
      [] tool = "tools.get_bill_related_bills" ->
           Dispatch(<<"bills">> \o a.id \o <<"related_bills">>,
                    ("page" :> a.page) @@ ("limit" :> a.limit))
      [] tool = "tools.get_bill_doc_html" ->
           Dispatch(<<"bills">> \o a.id \o <<"doc_html">>, <<>>)

\* the endpoint text an entry point hands to the dispatcher
EndpointOf(tool, a) ==
    CASE tool = "tools.get_bill_detail" -> <<"bills">> \o a.id
      [] tool = "tools.get_bill_related_bills" ->
           <<"bills">> \o a.id \o <<"related_bills">>
      [] tool = "tools.get_bill_doc_html" -> <<"bills">> \o a.id \o <<"doc_html">>
      [] OTHER -> a.id

\* what the entry point hands back for the envelope env
ClientResult(tool, env) ==
    CASE tool \in {"tools.search_bills", "tools.get_bill_detail"} ->
           MarkedString(env)
      [] tool = "tools.get_bill_related_bills" -> tools_get_bill_related_bills(env)
      [] tool = "tools.get_bill_doc_html" -> tools_get_bill_doc_html(env)
      [] OTHER -> Obj("envelope")

Endpoints ==
    { <<"bills">>, <<"bills", "203110077970000">>, <<"bills", "related">>,
      <<"bills", "meets">>,
      <<"bills", "x", "related">>, <<"bills", "x", "meets">>,
      <<"bills", "x", "related_bills">>, <<"stat">> }

DispatchParams ==
    { <<>>, ("page" :> 3) @@ ("limit" :> 50), "term" :> 11, "ext_term" :> 11 }

ClientArgs(tool) ==
    CASE tool \in {"client.search_bills", "tools.search_bills"} ->
           { Args(f, pl, "none", <<>>, 0, TRUE) :
               f \in FilterChoices(SearchBillsFilters), pl \in PageLimits }
           \cup { Args(<<>>, <<DefaultPage, DefaultLimit>>, "none", <<>>, 0,
                       FALSE) }
      [] tool \in {"client.get_bill_detail", "tools.get_bill_detail",
                   "tools.get_bill_doc_html" } ->
           { Args(<<>>, <<DefaultPage, DefaultLimit>>, "none", id, 0, TRUE) :
               id \in BillNos }
      [] tool \in {"client.get_bill_related_bills",
                   "tools.get_bill_related_bills"} ->
           { Args(<<>>, pl, "none", id, 0, TRUE) :
               pl \in PageLimits, id \in BillNos }
      [] tool = "client.get_bill_meets" ->
           { Args(f, pl, "none", id, 0, TRUE) :
               f \in FilterChoices(BillMeetsFilters), pl \in PageLimits,
               id \in Ids }
           \cup { Args(<<>>, <<DefaultPage, DefaultLimit>>, "none",
                       <<"203110077970000">>, 0, FALSE) }
      [] tool = "api_client.make_api_request" ->
           { Args(f, <<DefaultPage, DefaultLimit>>, "none", e, 0, TRUE) :
               f \in DispatchParams, e \in Endpoints }

TypeError == Exc("TypeError", 0, <<"got an unexpected keyword argument">>)

(***************************************************************************)
(* lymcp/types.py SearchBillRequest: the aliases are literals, session is  *)
(* aliased to the external name of term and term to that of session; do()  *)
(* has no except clause, so every exception reaches the caller.            *)
(***************************************************************************)
SearchBillRequest ==
    [ fields |-> <<"session", "term", "bill_flow_status", "bill_type",
                   "proposer", "co_proposer", "law_number", "bill_status",
                   "meeting_code", "proposal_source", "bill_number",
                   "proposal_number", "reference_number", "article_number",
                   "proposal_date">> \o PagingOut,
      aliasKey |-> ("session" :> "term") @@ ("term" :> "session")
                   @@ SelfAlias({"bill_flow_status", "bill_type", "proposer",
                                 "co_proposer", "law_number", "bill_status",
                                 "meeting_code", "proposal_source",
                                 "bill_number", "proposal_number",
                                 "reference_number", "article_number",
                                 "proposal_date"}),
      exclude |-> {}, idField |-> "",
      prefix |-> <<"bills">>, suffix |-> <<>>, query |-> TRUE ]

SearchBillRequest_params(a) ==
    model_dump(SearchBillRequest.fields,
               a.f @@ ("page" :> a.page) @@ ("limit" :> a.limit)
                   @@ ("output_fields" :> OutputFields(a.of)),
               AliasOf(SearchBillRequest.fields, SearchBillRequest.aliasKey),
               {})

SearchBillRequest_do(ret) ==
    IF ret.ok
    THEN [ kind |-> "json", raised |-> FALSE, exc |-> "", prefix |-> "",
           msg |-> <<>>, body |-> ret.value ]
    ELSE Propagate(ret.exc)

TypesArgs ==
    { Args(f, pl, of, <<>>, 0, TRUE) :
        f \in FilterChoices(OptionalOf(SearchBillRequest)),
        pl \in PageLimits, of \in OutputFieldArgs }

\* async with httpx.AsyncClient(...) as client: a new client is constructed
\* and entered
AsyncClient_enter(cs) == Append(cs, "open")

\* a client closed by an aclose() placed after the request, which an
\* exception skips
AsyncClient_exit_SkippedOnError(cs, i, ret) ==
    IF ret.ok THEN [cs EXCEPT ![i] = "closed"] ELSE cs

\* the end of the async with block, left by return or by an exception
AsyncClient_exit(cs, i, ret) == [cs EXCEPT ![i] = "closed"]

\* LegislativeYuanAPIClient.__init__: the fields of the api_client singleton
LegislativeYuanAPIClient ==
    [base_url |-> "https://ly.govapi.tw/v2", timeout |-> 30]

\* client.get(url, params=params): httpx writes one key=value pair per
\* value, so a key with an empty list is not in the query string while a key
\* with an empty string is sent as "key="
QueryString(params) ==
    [ k \in { j \in DOMAIN params :
                j = "output_fields" => params[j] # <<>> } |-> params[k] ]

\* the invocations that run side by side
Procs == {1, 2}

IdleProc == [pc |-> "idle", inv |-> NoInv, upstream |-> NoOutcome,
             envelope |-> NoEnvelope, result |-> NoResult]

Init ==
    /\ pc = "idle"
    /\ inv = NoInv
    /\ req = NoReq
    /\ gets = 0
    /\ upstream = NoOutcome
    /\ envelope = NoEnvelope
    /\ result = NoResult
    /\ clients = <<>>
    /\ client = 0
    /\ cache = <<>>
    /\ procs = [p \in Procs |-> IdleProc]
    /\ api_client = LegislativeYuanAPIClient

\* a tool of lymcp/server.py is called: the request model is built and its
\* do() issues the GET; a value the model rejects ends the call at once
ServerCall(tool, a) ==
    /\ pc = "idle"
    /\ Len(clients) < MaxClients
    /\ UNCHANGED others
    /\ inv' = [tool |-> tool, a |-> a]
    /\ upstream' = NoOutcome
    /\ envelope' = NoEnvelope
    /\ IF a.valid
       THEN /\ req' = Req(RequestPath(tool, a), RequestParams(tool, a))
            /\ gets' = make_api_request_gets("GET")
            /\ pc' = "waiting"
            /\ result' = NoResult
            /\ clients' = AsyncClient_enter(clients)
            /\ client' = Len(clients) + 1
       ELSE /\ req' = NoReq
            /\ gets' = 0
            /\ pc' = "done"
            /\ result' = ServerToolResult(tool, Raise(ValidationError))
            /\ UNCHANGED clients
            /\ client' = 0

\* the GET of a server tool resolves and the tool returns
ServerReturn(o) ==
    /\ pc = "waiting"
    /\ inv.tool \in ServerToolNames
    /\ upstream' = o
    /\ result' = ServerToolResult(inv.tool, make_api_request("GET", o))
    /\ clients' = AsyncClient_exit(clients, client, make_api_request("GET", o))
    /\ pc' = "done"
    /\ UNCHANGED <<inv, req, gets, envelope, client, others>>

\* the caller has its result; the next invocation starts from scratch
Finish ==
    /\ pc = "done"
    /\ pc' = "idle"
    /\ inv' = NoInv
    /\ req' = NoReq
    /\ gets' = 0
    /\ upstream' = NoOutcome
    /\ result' = NoResult
    /\ envelope' = NoEnvelope
    /\ client' = 0
    /\ UNCHANGED <<clients, others>>

\* a tool of mcpservertemplate/server.py is called and issues its GET
TemplateCall(tool, a) ==
    /\ pc = "idle"
    /\ Len(clients) < MaxClients
    /\ clients' = AsyncClient_enter(clients)
    /\ client' = Len(clients) + 1
    /\ UNCHANGED others
    /\ inv' = [tool |-> tool, a |-> a]
    /\ req' = Req(TemplatePath(tool, a), TemplateParams(tool, a))
    /\ gets' = 1
    /\ pc' = "waiting"
    /\ upstream' = NoOutcome
    /\ result' = NoResult
    /\ envelope' = NoEnvelope

\* the GET of a template tool resolves and the tool returns
TemplateReturn(o) ==
    /\ pc = "waiting"
    /\ inv.tool \in TemplateToolNames
    /\ upstream' = o
    /\ result' = TemplateToolResult(inv.tool, HttpxGetText(o))
    /\ clients' = AsyncClient_exit(clients, client, HttpxGetText(o))
    /\ pc' = "done"
    /\ UNCHANGED <<inv, req, gets, envelope, client, others>>

\* an operation of the API client is entered: directly, through the
\* dispatcher, or from a tool of lymcp/tools.  The request model is built
\* and issues its GET; an endpoint no branch accepts, a keyword the
\* operation does not take, or a rejected value ends the call at once
ClientCall(tool, a) ==
    LET plan == ClientPlan(tool, a)
        env == CASE plan.op = "unsupported" ->
                      Failure(<<M_UNSUPPORTED>> \o EndpointOf(tool, a))
                 [] plan.op = "type_error" -> NoEnvelope
                 [] OTHER -> ClientEnvelope(plan.op, Raise(ValidationError))
    IN  /\ pc = "idle"
        /\ Len(clients) < MaxClients
        /\ UNCHANGED others
        /\ inv' = [tool |-> tool, a |-> a]
        /\ upstream' = NoOutcome
        /\ IF plan.op \in ClientOps /\ plan.a.valid
           THEN /\ req' = ClientRequest(plan.op, plan.a)
                /\ gets' = 1
                /\ pc' = "waiting"
                /\ envelope' = NoEnvelope
                /\ result' = NoResult
                /\ clients' = AsyncClient_enter(clients)
                /\ client' = Len(clients) + 1
           ELSE /\ req' = NoReq
                /\ gets' = 0
                /\ pc' = "done"
                /\ envelope' = env
                /\ result' = IF plan.op = "type_error"
                             THEN Propagate(TypeError)
                             ELSE ClientResult(tool, env)
                /\ UNCHANGED clients
                /\ client' = 0

\* the GET of a client operation resolves: async_do ends, the client
\* wraps its outcome in an envelope and the entry point returns
ClientReturn(o) ==
    LET plan == ClientPlan(inv.tool, inv.a)
        env == ClientEnvelope(plan.op, ClientAsyncDo(plan.op, plan.a, o))
    IN  /\ pc = "waiting"
        /\ inv.tool \in ClientToolNames
        /\ upstream' = o
        /\ envelope' = env
        /\ result' = ClientResult(inv.tool, env)
        /\ clients' = AsyncClient_exit(clients, client, HttpxGetJson(o))
        /\ pc' = "done"
        /\ UNCHANGED <<inv, req, gets, client, others>>

DirectArgs ==
    { Args(f, pl, "none", id, 0, TRUE) :
        f \in FilterChoices(BillMeetsFilters), pl \in PageLimits, id \in Ids }
    \cup { Args(<<>>, <<DefaultPage, DefaultLimit>>, "none",
                <<"203110077970000">>, 0, FALSE) }

\* tools/bill_meets.get_bill_meets: get_bill_meets_json builds the request
\* model of models.py inside its try and awaits async_do
DirectCall(a) ==
    /\ pc = "idle"
    /\ Len(clients) < MaxClients
    /\ UNCHANGED others
    /\ inv' = [tool |-> "tools.get_bill_meets", a |-> a]
    /\ upstream' = NoOutcome
    /\ envelope' = NoEnvelope
    /\ IF a.valid
       THEN /\ req' = ClientRequest("get_bill_meets", a)
            /\ gets' = 1
            /\ pc' = "waiting"
            /\ result' = NoResult
            /\ clients' = AsyncClient_enter(clients)
            /\ client' = Len(clients) + 1
       ELSE /\ req' = NoReq
            /\ gets' = 0
            /\ pc' = "done"
            /\ result' = get_bill_meets_json(Raise(ValidationError))
            /\ UNCHANGED clients
            /\ client' = 0

\* the GET of get_bill_meets_json resolves and the tool returns
DirectReturn(o) ==
    /\ pc = "waiting"
    /\ inv.tool = "tools.get_bill_meets"
    /\ upstream' = o
    /\ result' = get_bill_meets_json(ListingAsyncDo(inv.a, o))
    /\ clients' = AsyncClient_exit(clients, client, HttpxGetJson(o))
    /\ pc' = "done"
    /\ UNCHANGED <<inv, req, gets, envelope, client, others>>

\* types.SearchBillRequest(...).do() is awaited: the GET is issued
TypesCall(a) ==
    /\ pc = "idle"
    /\ Len(clients) < MaxClients
    /\ clients' = AsyncClient_enter(clients)
    /\ client' = Len(clients) + 1
    /\ UNCHANGED others
    /\ inv' = [tool |-> "types.SearchBillRequest.do", a |-> a]
    /\ req' = Req(SearchBillRequest.prefix, SearchBillRequest_params(a))
    /\ gets' = 1
    /\ pc' = "waiting"
    /\ upstream' = NoOutcome
    /\ result' = NoResult
    /\ envelope' = NoEnvelope

\* the GET of types.SearchBillRequest.do resolves
TypesReturn(o) ==
    /\ pc = "waiting"
    /\ inv.tool = "types.SearchBillRequest.do"
    /\ upstream' = o
    /\ result' = SearchBillRequest_do(HttpxGetJson(o))
    /\ clients' = AsyncClient_exit(clients, client, HttpxGetJson(o))
    /\ pc' = "done"
    /\ UNCHANGED <<inv, req, gets, envelope, client, others>>

\* api.make_api_request is awaited with a method: the client is entered,
\* then the GET is issued or the method is refused inside the block
ApiCall(method) ==
    LET refused == make_api_request(method, NoOutcome)
    IN  /\ pc = "idle"
        /\ Len(clients) < MaxClients
        /\ UNCHANGED others
        /\ inv' = [ tool |-> "api.make_api_request",
                    a |-> Args("method" :> method,
                               <<DefaultPage, DefaultLimit>>, "none",
                               <<"stat">>, 0, TRUE) ]
        /\ upstream' = NoOutcome
        /\ envelope' = NoEnvelope
        /\ client' = Len(clients) + 1
        /\ gets' = make_api_request_gets(method)
        /\ IF make_api_request_gets(method) > 0
           THEN /\ req' = Req(<<"stat">>, <<>>)
                /\ pc' = "waiting"
                /\ result' = NoResult
                /\ clients' = AsyncClient_enter(clients)
           ELSE /\ req' = NoReq
                /\ pc' = "done"
                /\ result' = Propagate(refused.exc)
                /\ clients' = AsyncClient_exit(AsyncClient_enter(clients),
                                               Len(clients) + 1, refused)

\* the GET of api.make_api_request resolves
ApiReturn(o) ==
    LET ret == make_api_request(inv.a.f["method"], o)
    IN  /\ pc = "waiting"
        /\ inv.tool = "api.make_api_request"
        /\ upstream' = o
        /\ result' = IF ret.ok
                     THEN [ kind |-> "json", raised |-> FALSE, exc |-> "",
                            prefix |-> "", msg |-> <<>>, body |-> ret.value ]
                     ELSE Propagate(ret.exc)
        /\ clients' = AsyncClient_exit(clients, client, ret)
        /\ pc' = "done"
        /\ UNCHANGED <<inv, req, gets, envelope, client, others>>

(***************************************************************************)
(* models.py search_bills_cached and get_bill_detail_cached: functools     *)
(* cache around the synchronous do() of the request models.                *)
(***************************************************************************)
CachedToolNames == {"search_bills_cached", "get_bill_detail_cached"}

\* the calls that are made, each an exact argument tuple
CachedCalls ==
    { [tool |-> "search_bills_cached", a |-> Args(f, pl, "none", <<>>, 0, TRUE)] :
        f \in {<<>>, "term" :> 11},
        pl \in {<<DefaultPage, DefaultLimit>>} }
    \cup { [tool |-> "search_bills_cached",
            a |-> Args(<<>>, <<3, 50>>, "none", <<>>, 0, TRUE)] }
    \cup { [tool |-> "get_bill_detail_cached",
            a |-> Args(<<>>, <<DefaultPage, DefaultLimit>>, "none", id, 0, TRUE)] :
          id \in Ids }

\* the synchronous do() of the request model a cached function builds; it
\* has the body of async_do around httpx.get
CachedDo(call, o) ==
    IF call.tool = "search_bills_cached"
    THEN LET ret == ListingAsyncDo(call.a, o)
         IN  IF ret.ok
             THEN Return(Payload("list", FALSE, "none", ret.value.items))
             ELSE ret
    ELSE LET ret == GetBillDetailRequest_async_do(o)
         IN  IF ret.ok
             THEN Return(Payload("object", FALSE, "none",
                                 <<"ext_bill_number", ret.value.bill_no>>))
             ELSE ret

CachedRequest(call) ==
    IF call.tool = "search_bills_cached"
    THEN Req(<<"bills">>, SearchBillsRequest_build_params(call.a))
    ELSE Req(<<"bills">> \o call.a.id, <<>>)

\* a memo that keeps the latest entry only
cache_store_KeepsLatest(c, key, value) == key :> value

\* functools.cache: the value is stored under the key, nothing is evicted
cache_store(c, key, value) == (key :> value) @@ c

\* a memo that also keeps what a failed call raised
cache_update_StoresFailure(c, key, ret) ==
    cache_store(c, key, IF ret.ok THEN ret.value ELSE NoPayload)

\* the wrapper of functools.cache after the wrapped function ended: a
\* returned value is stored, a raised exception passes through unstored
cache_update(c, key, ret) ==
    IF ret.ok THEN cache_store(c, key, ret.value) ELSE c

Returned(body) ==
    [ kind |-> "model", raised |-> FALSE, exc |-> "", prefix |-> "",
      msg |-> <<>>, body |-> body ]

\* a cached function is called: a key in the memo is answered from it,
\* any other key builds the request model and do() issues the GET
CachedCall(call) ==
    /\ pc = "idle"
    /\ inv' = call
    /\ upstream' = NoOutcome
    /\ envelope' = NoEnvelope
    /\ client' = 0
    /\ UNCHANGED <<clients, cache, procs, api_client>>
    /\ IF call \in DOMAIN cache
       THEN /\ req' = NoReq
            /\ gets' = 0
            /\ pc' = "done"
            /\ result' = Returned(cache[call])
       ELSE /\ req' = CachedRequest(call)
            /\ gets' = 1
            /\ pc' = "waiting"
            /\ result' = NoResult

\* the GET of do() resolves: a value is stored and returned, an exception
\* leaves the memo as it was and reaches the caller
CachedReturn(o) ==
    LET ret == CachedDo(inv, o)
    IN  /\ pc = "waiting"
        /\ inv.tool \in CachedToolNames
        /\ upstream' = o
        /\ pc' = "done"
        /\ cache' = cache_update(cache, inv, ret)
        /\ result' = IF ret.ok THEN Returned(ret.value)
                                ELSE Propagate(ret.exc)
        /\ UNCHANGED <<inv, req, gets, envelope, clients, client, procs,
                       api_client>>

NextCache ==
    \/ /\ pc = "idle"
       /\ \E call \in CachedCalls : CachedCall(call)
    \/ /\ pc = "waiting"
       /\ \E o \in Outcomes : CachedReturn(o)
    \/ Finish

SpecCache == Init /\ [][NextCache]_vars

(***************************************************************************)
(* Invocations that run side by side: the tool host awaits several tool    *)
(* calls at once and they interleave at their await points.  What they     *)
(* share is the api_client singleton of api_client.py.                     *)
(***************************************************************************)
\* the calls that run side by side: each issues its GET
ConcCalls ==
    { [tool |-> t, a |-> Args(<<>>, <<DefaultPage, DefaultLimit>>, "none", id,
                              0, TRUE)] :
        t \in {"client.get_bill_detail", "tools.get_bill_detail"}, id \in Ids }
    \cup { [tool |-> t, a |-> Args(<<>>, <<DefaultPage, DefaultLimit>>, "none",
                                  <<"203110077970000">>, 0, TRUE)] :
        t \in {"client.get_bill_related_bills", "server.get_bill",
               "template.get_bill_detail"} }

\* an operation that keeps its last successful envelope on the client object
\* and serves it when the upstream fails
ClientOp_ServesStale(self, op, a, o) ==
    LET env == ClientEnvelope(op, ClientAsyncDo(op, a, o))
    IN  IF env.success
        THEN [ envelope |-> env,
               self |-> [ base_url |-> self.base_url, timeout |-> self.timeout,
                          last |-> env ] ]
        ELSE IF "last" \in DOMAIN self
             THEN [envelope |-> self.last, self |-> self]
             ELSE [envelope |-> env, self |-> self]

\* an operation of LegislativeYuanAPIClient run on the object self: it reads
\* no field of self and assigns none
ClientOp(self, op, a, o) ==
    [envelope |-> ClientEnvelope(op, ClientAsyncDo(op, a, o)), self |-> self]

\* what a call hands back once its GET has resolved to o, and the client
\* object it leaves behind
ConcStep(self, call, o) ==
    IF call.tool \in ClientToolNames
    THEN LET plan == ClientPlan(call.tool, call.a)
             r == ClientOp(self, plan.op, plan.a, o)
         IN  [ envelope |-> r.envelope,
               result |-> ClientResult(call.tool, r.envelope),
               self |-> r.self ]
    ELSE IF call.tool \in ServerToolNames
    THEN [ envelope |-> NoEnvelope,
           result |-> ServerToolResult(call.tool, make_api_request("GET", o)),
           self |-> self ]
    ELSE [ envelope |-> NoEnvelope,
           result |-> TemplateToolResult(call.tool, HttpxGetText(o)),
           self |-> self ]

\* invocation p starts and awaits its GET
ConcCall(p, call) ==
    /\ procs[p].pc = "idle"
    /\ procs' = [procs EXCEPT ![p] = [ pc |-> "waiting", inv |-> call,
                                       upstream |-> NoOutcome,
                                       envelope |-> NoEnvelope,
                                       result |-> NoResult ]]
    /\ UNCHANGED <<pc, inv, req, gets, upstream, envelope, result, clients,
                   client, cache, api_client>>

\* the GET of invocation p resolves and p returns
ConcReturn(p, o) ==
    LET r == ConcStep(api_client, procs[p].inv, o)
    IN  /\ procs[p].pc = "waiting"
        /\ procs' = [procs EXCEPT ![p] = [ pc |-> "done", inv |-> procs[p].inv,
                                           upstream |-> o,
                                           envelope |-> r.envelope,
                                           result |-> r.result ]]
        /\ api_client' = r.self
        /\ UNCHANGED <<pc, inv, req, gets, upstream, envelope, result,
                       clients, client, cache>>

\* the caller of invocation p has its result
ConcFinish(p) ==
    /\ procs[p].pc = "done"
    /\ procs' = [procs EXCEPT ![p] = IdleProc]
    /\ UNCHANGED <<pc, inv, req, gets, upstream, envelope, result, clients,
                   client, cache, api_client>>

NextConc ==
    \/ \E p \in Procs : /\ procs[p].pc = "idle"
                         /\ \E call \in ConcCalls : ConcCall(p, call)
    \/ \E p \in Procs : /\ procs[p].pc = "waiting"
                         /\ \E o \in Outcomes : ConcReturn(p, o)
    \/ \E p \in Procs : ConcFinish(p)

SpecConc == Init /\ [][NextConc]_vars

\* the tools the server registered with @mcp.tool(), as list_tools reports them
ToolList(names) ==
    [ kind |-> "tools", raised |-> FALSE, exc |-> "", prefix |-> "",
      msg |-> <<>>, body |-> NoPayload, names |-> names ]

\* the host asks the server for its tools: no upstream request is made
ListTools ==
    /\ pc = "idle"
    /\ pc' = "done"
    /\ inv' = [tool |-> "mcp.list_tools", a |-> NoArgs]
    /\ req' = NoReq
    /\ gets' = 0
    /\ upstream' = NoOutcome
    /\ envelope' = NoEnvelope
    /\ result' = ToolList(ServerToolNames)
    /\ client' = 0
    /\ UNCHANGED <<clients, others>>

Next ==
    \/ /\ pc = "idle"
       /\ \E tool \in ServerToolNames : \E a \in ServerArgs(tool) :
             ServerCall(tool, a)
    \/ /\ pc = "waiting"
       /\ \E o \in Outcomes : ServerReturn(o)
    \/ /\ pc = "idle"
       /\ \E tool \in TemplateToolNames : \E a \in TemplateArgs(tool) :
             TemplateCall(tool, a)
    \/ /\ pc = "waiting"
       /\ \E o \in Outcomes : TemplateReturn(o)
    \/ /\ pc = "idle"
       /\ \E tool \in ClientToolNames : \E a \in ClientArgs(tool) :
             ClientCall(tool, a)
    \/ /\ pc = "waiting"
       /\ \E o \in Outcomes : ClientReturn(o)
    \/ /\ pc = "idle"
       /\ \E a \in DirectArgs : DirectCall(a)
    \/ /\ pc = "waiting"
       /\ \E o \in Outcomes : DirectReturn(o)
    \/ /\ pc = "idle"
       /\ \E a \in TypesArgs : TypesCall(a)
    \/ /\ pc = "waiting"
       /\ \E o \in Outcomes : TypesReturn(o)
    \/ /\ pc = "idle"
       /\ \E method \in Methods : ApiCall(method)
    \/ /\ pc = "waiting"
       /\ \E o \in Outcomes : ApiReturn(o)
    \/ ListTools
    \/ Finish

Spec == Init /\ [][Next]_vars

\* the awaited GET of the invocation in progress resolves: httpx hands back
\* a response or a connection error, or its 30 second timeout fires
Resolve == pc = "waiting" /\ Next

SpecLive == Init /\ [][Next]_vars /\ WF_vars(Resolve)

(***************************************************************************)
(* Vocabulary of the properties.                                           *)
(***************************************************************************)
Done == pc = "done"

\* the client operation the current invocation runs ("" outside the client)
CurrentOp ==
    IF inv.tool \in ClientToolNames THEN ClientPlan(inv.tool, inv.a).op
    ELSE ""

\* the arguments the request model of the current invocation is built from
CurrentArgs ==
    IF inv.tool \in ClientToolNames THEN ClientPlan(inv.tool, inv.a).a
    ELSE inv.a

\* the optional filters of the current invocation, by logical name
CurrentFilters ==
    IF inv.tool \in ServerToolNames THEN ServerTools[inv.tool].filters
    ELSE IF inv.tool \in TemplateToolNames
         THEN TemplateTools[inv.tool].notNone \cup TemplateTools[inv.tool].truthy
    ELSE IF inv.tool = "tools.get_bill_meets" \/ CurrentOp = "get_bill_meets"
         THEN BillMeetsFilters
    ELSE IF CurrentOp = "search_bills" THEN SearchBillsFilters
    ELSE IF inv.tool = "types.SearchBillRequest.do"
         THEN OptionalOf(SearchBillRequest)
    ELSE {}

\* the filters the caller gave a value (not None)
GivenFilters == DOMAIN CurrentArgs.f \cap CurrentFilters

\* the external (upstream) name of a logical filter name: the names the
\* hand-written queries of mcpservertemplate use, else the translation table
ExternalName(x) ==
    CASE x = "bill_category" -> "ext_bill_type"
      [] x = "cosigner" -> "ext_co_proposer"
      [] x = "bill_no" /\ inv.tool \notin ServerToolNames -> "ext_bill_number"
      [] x = "bill_no" /\ inv.tool \in ServerToolNames -> "ext_bill_no_nested"
      [] x = "law_number" /\ inv.tool = "server.get_committee_meets" ->
           "ext_law_number_nested"
      [] OTHER -> "ext_" \o x

\* the query key under which the request model of the current invocation
\* sends the filter x
KeyOf(x) ==
    IF inv.tool \in ServerToolNames
    THEN LET t == ServerTools[inv.tool]
         IN  AliasOf(t.cls.fields, t.cls.aliasKey)
                 [IF x \in DOMAIN t.rename THEN t.rename[x] ELSE x]
    ELSE IF inv.tool \in TemplateToolNames THEN TemplateTools[inv.tool].key[x]
    ELSE IF inv.tool = "types.SearchBillRequest.do"
         THEN AliasOf(SearchBillRequest.fields, SearchBillRequest.aliasKey)[x]
    ELSE x

\* a message with at least one character
NonEmpty(message) == \E i \in 1..Len(message) : message[i] # ""

\* the invocation hands a failure report to its caller
FailureReported ==
    \/ result.raised
    \/ result.kind = "str" /\ result.prefix \notin {"", OK_MARK}
    \/ result.kind = "envelope" /\ ~envelope.success

(***************************************************************************)
(* C1: every tool registered in lymcp/server.py returns a string on every  *)
(* exit path - a reply with a JSON body, a non-2xx status, a connection    *)
(* failure, a timeout, a body that is not JSON, an error raised while the  *)
(* request is built - and never lets an exception reach the tool host.     *)
(***************************************************************************)
C1_ServerToolsReturnText ==
    (Done /\ inv.tool \in ServerToolNames)
        => (result.kind = "str" /\ ~result.raised)

C1_Witness ==
    /\ Done
    /\ inv.tool = "server.get_bill"
    /\ upstream.kind = "not_json"
    /\ result.kind = "str"
    /\ result.prefix = "Failed to get bill detail, got: "

(***************************************************************************)
(* C2: on a 404 reply to a bill-detail lookup, every variant of the        *)
(* bill-detail tool (tools/bill_detail.get_bill_detail, server.get_bill,   *)
(* mcpservertemplate.get_bill_detail) returns a string that begins with    *)
(* its failure marker and does not raise.                                  *)
(***************************************************************************)
BillDetailTools ==
    {"tools.get_bill_detail", "server.get_bill", "template.get_bill_detail"}

C2_FailureMark ==
    CASE inv.tool = "server.get_bill" -> "Failed to get bill detail, got: "
      [] inv.tool = "template.get_bill_detail" -> "Error fetching bill detail: "
      [] OTHER -> FAIL_MARK

C2_NotFoundIsFailureMarked ==
    (Done /\ inv.tool \in BillDetailTools
          /\ upstream.kind = "status" /\ upstream.code = 404)
        => (result.kind = "str" /\ ~result.raised
            /\ result.prefix = C2_FailureMark)

C2_Witness ==
    /\ Done
    /\ inv.tool = "tools.get_bill_detail"
    /\ inv.a.id = <<"invalid_bill_number">>
    /\ upstream.kind = "status" /\ upstream.code = 404
    /\ result.prefix = FAIL_MARK
    /\ result.msg = <<M_API_FAILED, M_HTTP, "404">>

(***************************************************************************)
(* C3: for every operation of the API client the failure message is        *)
(* selected by the upstream status: 404 gives the not-found message, 429   *)
(* the rate-limit message, every 5xx the upstream-service-error message,   *)
(* any other non-2xx the generic message with the status code.             *)
(***************************************************************************)
C3_Expected(code) ==
    CASE code = 404 -> <<M_NOT_FOUND>>
      [] code = 429 -> <<M_RATE_LIMITED>>
      [] code >= 500 /\ code <= 599 -> <<M_SERVER_ERROR>>
      [] OTHER -> <<M_HTTP, ToString(code)>>

C3_StatusSelectsMessage ==
    (Done /\ CurrentOp \in ClientOps /\ upstream.kind = "status")
        => (envelope.made /\ ~envelope.success
            /\ envelope.message = C3_Expected(upstream.code))

(***************************************************************************)
(* C4: when the upstream call of get_bill_meets or get_bill_related_bills  *)
(* fails with a timeout the API client returns the dedicated timeout       *)
(* message, and with a connection error the dedicated connection message;  *)
(* neither is reported with the generic unexpected-error message.          *)
(***************************************************************************)
C4_DedicatedTransportMessages ==
    (Done /\ CurrentOp \in {"get_bill_meets", "get_bill_related_bills"})
        => /\ upstream.kind = "timeout" => envelope.message = <<M_TIMEOUT>>
           /\ upstream.kind = "connect" => envelope.message = <<M_CONNECT>>

(***************************************************************************)
(* C5: every invocation issues at most one upstream GET: nothing is        *)
(* retried, and a failure of the single request (a non-2xx status, a       *)
(* timeout, a connection error) is reported in the result of that same     *)
(* invocation.                                                             *)
(***************************************************************************)
C5_AtMostOneGet ==
    /\ gets <= 1
    /\ (Done /\ upstream.kind \in {"status", "timeout", "connect"})
          => (gets = 1 /\ FailureReported)

C5_Witness ==
    /\ Done
    /\ inv.tool = "server.list_bills"
    /\ upstream.kind = "connect"
    /\ gets = 1
    /\ result.prefix = "Failed to list bills, got: "

(***************************************************************************)
(* C6: every APIResponse of the API client or of its dispatcher with       *)
(* success = false has data null and a non-empty message, on every failure *)
(* path: status error, timeout, connection error, unexpected exception,    *)
(* unsupported endpoint.                                                   *)
(***************************************************************************)
C6_FailureEnvelope ==
    (envelope.made /\ ~envelope.success)
        => (envelope.data = NullData /\ NonEmpty(envelope.message))

C6_Witness ==
    /\ Done
    /\ inv.tool = "client.get_bill_meets"
    /\ upstream.kind = "timeout"
    /\ envelope.made /\ ~envelope.success
    /\ envelope.data = NullData

(***************************************************************************)
(* C7: for every request model and every set of its optional filters left  *)
(* unset (None), the query mapping that is sent has no key for an unset    *)
(* filter: the key under which the model sends that filter is absent, and  *)
(* so is the filter's logical name.                                        *)
(***************************************************************************)
C7_UnsetFiltersAbsent ==
    req.sent =>
        \A x \in CurrentFilters \ GivenFilters :
            /\ KeyOf(x) \notin DOMAIN req.params
            /\ x \notin DOMAIN req.params

C7_Witness ==
    /\ req.sent
    /\ inv.tool = "server.list_bills"
    /\ DOMAIN inv.a.f = {"term"}
    /\ DOMAIN req.params = {"ext_term", "page", "limit", "output_fields"}

(***************************************************************************)
(* C8: for every listing operation and every combination of filters the    *)
(* outgoing query contains both page and limit, with the caller's values   *)
(* or the defaults 1 and 20.                                               *)
(***************************************************************************)
ListingTools ==
    { "server.list_bills", "server.get_bill_meets",
      "server.get_bill_related_bills", "server.list_committees",
      "server.get_committee_meets", "server.list_gazettes",
      "server.get_gazette_agendas", "server.list_gazette_agendas",
      "server.list_interpellations", "server.get_legislator_interpellations",
      "server.list_ivods", "server.get_meet_ivods",
      "template.search_bills", "template.get_bill_meets",
      "template.get_bill_related_bills", "tools.get_bill_meets",
      "types.SearchBillRequest.do" }

IsListing ==
    \/ inv.tool \in ListingTools
    \/ CurrentOp \in {"search_bills", "get_bill_related_bills", "get_bill_meets"}

C8_PageAndLimitSent ==
    (req.sent /\ IsListing)
        => /\ {"page", "limit"} \subseteq DOMAIN req.params
           /\ req.params["page"] = CurrentArgs.page
           /\ req.params["limit"] = CurrentArgs.limit

(***************************************************************************)
(* C9: for every request the set of query keys sent is the image of the    *)
(* present logical fields under the translation table, one key per field:  *)
(* a present field appears under its external name, never under its        *)
(* logical name, and no two present fields share a key.                    *)
(***************************************************************************)
\* the filters that are present: given, and not dropped as empty by the
\* hand-written queries
PresentFilters ==
    IF inv.tool \in TemplateToolNames
    THEN { x \in GivenFilters :
             x \in TemplateTools[inv.tool].truthy => ~Falsy(x, inv.a.f[x]) }
    ELSE GivenFilters

C9_KeysAreTranslated ==
    req.sent =>
        /\ \A x \in PresentFilters :
              ExternalName(x) \in DOMAIN req.params /\ x \notin DOMAIN req.params
        /\ Cardinality(DOMAIN req.params \ {"page", "limit", "output_fields"})
              = Cardinality(PresentFilters)
              + (IF inv.tool = "server.get_legislator_interpellations"
                 THEN 1 ELSE 0)

(***************************************************************************)
(* C10: the normalizer of the listing request models maps an object with a *)
(* data key to the value under data, a bare list to that list and any      *)
(* other payload to the empty result set, and in all three cases the       *)
(* operation completes successfully.                                       *)
(***************************************************************************)
C10_Expected(body) ==
    IF body.type \in {"object", "list"} /\ (body.type = "object" => body.hasData)
    THEN body.items ELSE <<>>

C10_NormalizerTotal ==
    (Done /\ upstream.kind = "ok"
          /\ CurrentOp \in {"search_bills", "get_bill_related_bills",
                            "get_bill_meets"})
        => (envelope.made /\ envelope.success
            /\ envelope.data = ListData(C10_Expected(upstream.body)))

(***************************************************************************)
(* C11: in every successful listing envelope (search bills, related bills, *)
(* bill meets) total equals the number of items in data, the count of      *)
(* items returned in the current page.                                     *)
(***************************************************************************)
ListingOps == {"search_bills", "get_bill_related_bills", "get_bill_meets"}

C11_TotalIsItemCount ==
    (envelope.made /\ envelope.success /\ CurrentOp \in ListingOps)
        => (envelope.data.kind = "list"
            /\ envelope.total = Len(envelope.data.items))

C11_Witness ==
    /\ Done
    /\ inv.tool = "client.search_bills"
    /\ envelope.made /\ envelope.success
    /\ Len(envelope.data.items) = 2
    /\ envelope.total = 2

(***************************************************************************)
(* C12: in the related-bills tool of lymcp/tools a serialized payload      *)
(* longer than 20000 characters is returned truncated with the truncation  *)
(* notice, a payload of at most 20000 characters is returned whole after   *)
(* the success line, and both outcomes are reachable through the tool's    *)
(* call to make_api_request: the call reaches the upstream and a listing   *)
(* the upstream returns comes back success-marked.                         *)
(***************************************************************************)
C12_TruncationReachable ==
    (Done /\ inv.tool = "tools.get_bill_related_bills" /\ inv.a.id \in Ids)
        => /\ gets = 1
           /\ (upstream.kind = "ok" /\ envelope.success)
                => /\ result.prefix = OK_MARK
                   /\ IF DataChars(envelope.data) > TruncateLimit
                      THEN /\ result.msg = <<M_OK, M_TRUNCATED>>
                           /\ result.body = Truncated(envelope.data)
                      ELSE /\ result.msg = <<M_OK>>
                           /\ result.body = DataPayload(envelope.data)

(***************************************************************************)
(* C13: the doc_html tool of lymcp/tools returns the no-content message,   *)
(* not a failure-marked string, when the upstream call succeeds with null  *)
(* or empty content; it returns a failure-marked string only when the      *)
(* request itself failed.                                                  *)
(***************************************************************************)
C13_NoContentIsNotFailure ==
    (Done /\ inv.tool = "tools.get_bill_doc_html" /\ inv.a.id \in Ids)
        => /\ result.prefix = FAIL_MARK
                => (gets = 1 /\ upstream.kind # "ok")
           /\ (upstream.kind = "ok" /\ envelope.success
                 /\ (envelope.data.kind = "null" \/ envelope.data.items = <<>>))
                => (result.prefix = ""
                    /\ result.msg \in {<<M_NO_CONTENT>>, <<M_NO_CONTENT_EMPTY>>})

(***************************************************************************)
(* C14: given a bill identifier the upstream knows and a 2xx reply that    *)
(* describes the bill (a record, bare or under data, that names the bill   *)
(* under the external name of bill_no), the bill-detail tool of            *)
(* lymcp/tools returns a success-marked string whose payload contains the  *)
(* identifier field with its value.                                        *)
(***************************************************************************)
DescribesBill(body) ==
    /\ body.type = "object"
    /\ body.hasData => body.dataType = "object"
    /\ body.items = <<"ext_bill_number">>

C14_DetailHasIdentifier ==
    (Done /\ inv.tool = "tools.get_bill_detail" /\ inv.a.id \in Ids
          /\ upstream.kind = "ok" /\ DescribesBill(upstream.body))
        => (result.kind = "str" /\ result.prefix = OK_MARK
            /\ result.body.type = "object"
            /\ result.body.items = <<"ext_bill_number", "set">>)

C14_Witness ==
    /\ Done
    /\ inv.tool = "tools.get_bill_detail"
    /\ inv.a.id = <<"203110077970000">>
    /\ upstream.kind = "ok"
    /\ upstream.body = Payload("object", TRUE, "object", <<"ext_bill_number">>)
    /\ result.prefix = OK_MARK
    /\ result.body.items = <<"ext_bill_number", "set">>

(***************************************************************************)
(* C15: every request that reaches the transport has page >= 1: no        *)
(* request model or tool forwards a page of 0 or a negative page.          *)
(***************************************************************************)
C15_PageAtLeastOne ==
    (req.sent /\ "page" \in DOMAIN req.params) => req.params["page"] >= 1

(***************************************************************************)
(* C16: a filter whose value is empty (an empty string, or the empty list  *)
(* of output_fields when no selection is given) is dropped from the        *)
(* outgoing query like an absent value, and a non-empty list is passed     *)
(* through as a repeated query parameter.                                  *)
(***************************************************************************)
EmptyFilters ==
    { x \in GivenFilters : x \notin IntFields /\ CurrentArgs.f[x] = "" }

C16_EmptyValuesDropped ==
    req.sent =>
        /\ \A x \in EmptyFilters : KeyOf(x) \notin DOMAIN QueryString(req.params)
        /\ "output_fields" \in DOMAIN req.params =>
              IF CurrentArgs.of = "some"
              THEN /\ "output_fields" \in DOMAIN QueryString(req.params)
                   /\ QueryString(req.params)["output_fields"] = <<"f1">>
              ELSE "output_fields" \notin DOMAIN QueryString(req.params)

(***************************************************************************)
(* C17: every invocation acquires its own HTTP client and releases it on   *)
(* every exit path: whenever an invocation has finished (with a result, a  *)
(* status error, a transport exception, a JSON parse error or an           *)
(* unsupported-method error) the client it opened is closed, a client is   *)
(* open only while the invocation that constructed it waits for its reply, *)
(* and the client an invocation takes is newly constructed, never one an   *)
(* earlier invocation used.                                                *)
(***************************************************************************)
C17_Scoped ==
    /\ \A i \in 1..Len(clients) :
          clients[i] = "open" => (pc = "waiting" /\ i = client)
    /\ pc = "waiting" => (client = Len(clients) /\ clients[client] = "open")
    /\ (Done /\ client # 0) => clients[client] = "closed"

C17_Fresh == (client' # client /\ client' # 0) => client' > Len(clients)

C17_ClientReleased == []C17_Scoped /\ [][C17_Fresh]_vars

C17_Witness ==
    /\ Done
    /\ inv.tool = "client.get_bill_detail"
    /\ upstream.kind = "timeout"
    /\ client = 2
    /\ clients = <<"closed", "closed">>

(***************************************************************************)
(* C18: for search_bills_cached and get_bill_detail_cached, once a call    *)
(* with an argument tuple has returned a value, every later call with the  *)
(* same tuple returns that value and issues no upstream request, whatever  *)
(* calls with other arguments came in between: an entry of the memo is     *)
(* never changed or evicted.                                               *)
(***************************************************************************)
C18_Hit ==
    (pc = "idle" /\ pc' # "idle" /\ inv' \in DOMAIN cache)
        => (pc' = "done" /\ gets' = 0 /\ ~result'.raised
            /\ result'.body = cache[inv'])

C18_Kept == \A k \in DOMAIN cache : k \in DOMAIN cache' /\ cache'[k] = cache[k]

C18_CacheRetains == [][C18_Hit /\ C18_Kept]_vars

C18_Witness ==
    /\ Done
    /\ inv.tool = "search_bills_cached"
    /\ inv \in DOMAIN cache
    /\ Cardinality(DOMAIN cache) >= 3
    /\ gets = 0
    /\ result.body = cache[inv]
    /\ Len(result.body.items) = 2

(***************************************************************************)
(* C19: for any interleaving of tool invocations that run side by side,    *)
(* the result of each is the one it returns when it runs alone against the *)
(* same upstream reply, and the object the invocations share (the          *)
(* api_client singleton) is never written.                                 *)
(***************************************************************************)
\* the envelope and the result of a call that runs alone and gets the reply o
AloneEnvelope(call, o) ==
    IF call.tool \in ClientToolNames
    THEN LET plan == ClientPlan(call.tool, call.a)
         IN  ClientEnvelope(plan.op, ClientAsyncDo(plan.op, plan.a, o))
    ELSE NoEnvelope

AloneResult(call, o) ==
    IF call.tool \in ClientToolNames
    THEN ClientResult(call.tool, AloneEnvelope(call, o))
    ELSE IF call.tool \in ServerToolNames
    THEN ServerToolResult(call.tool, make_api_request("GET", o))
    ELSE TemplateToolResult(call.tool, HttpxGetText(o))

C19_Isolated ==
    /\ api_client = LegislativeYuanAPIClient
    /\ \A p \in Procs :
          procs[p].pc = "done" =>
              /\ procs[p].result = AloneResult(procs[p].inv, procs[p].upstream)
              /\ procs[p].envelope = AloneEnvelope(procs[p].inv, procs[p].upstream)

C19_Witness ==
    /\ procs[1].pc = "done" /\ procs[2].pc = "done"
    /\ procs[1].inv.tool = "client.get_bill_detail"
    /\ procs[2].inv.tool = "client.get_bill_detail"
    /\ procs[1].upstream.kind = "ok" /\ procs[1].envelope.success
    /\ procs[2].upstream.kind = "status" /\ ~procs[2].envelope.success

(***************************************************************************)
(* C20: every implementation of the bill operations requests the path the  *)
(* interface lists for it: /bills/{id} for the detail, /bills/{id}/meets   *)
(* for the meetings, /bills/{id}/related_bills for the related bills and   *)
(* /bills/{id}/doc_html for the documents.                                 *)
(***************************************************************************)
\* the segments the interface lists after /bills/{id} for each tool
ListedSuffix ==
    [ t \in {"server.get_bill", "template.get_bill_detail",
             "client.get_bill_detail", "tools.get_bill_detail"} |-> <<>> ]
    @@ [ t \in {"server.get_bill_meets", "template.get_bill_meets",
                "client.get_bill_meets", "tools.get_bill_meets"} |->
           <<"meets">> ]
    @@ [ t \in {"server.get_bill_related_bills",
                "template.get_bill_related_bills",
                "client.get_bill_related_bills",
                "tools.get_bill_related_bills"} |-> <<"related_bills">> ]
    @@ [ t \in {"server.get_bill_doc_html", "template.get_bill_doc_html",
                "tools.get_bill_doc_html"} |-> <<"doc_html">> ]

C20_ListedPathRequested ==
    (/\ inv.tool \in DOMAIN ListedSuffix
     /\ inv.a.id \in Ids
     /\ req.sent)
        => req.path = <<"bills">> \o inv.a.id \o ListedSuffix[inv.tool]

(***************************************************************************)
(* The Bill response model of models.py: each logical field and the        *)
(* external name (alias) under which the upstream reply carries it.  The   *)
(* external names are the ones the request models send: the alias of       *)
(* bill_no is the external name of bill_number, the alias of category the  *)
(* external name of bill_type, and so on.                                  *)
(***************************************************************************)
Bill ==
    [ alias |-> ("bill_no" :> "ext_bill_number")
                @@ ("title" :> "ext_bill_name")
                @@ ("category" :> "ext_bill_type")
                @@ ("term" :> "ext_term")
                @@ ("session" :> "ext_session")
                @@ ("proposer" :> "ext_proposer")
                @@ ("cosigner" :> "ext_co_proposer")
                @@ ("proposal_date" :> "ext_proposal_date")
                @@ ("proposal_source" :> "ext_proposal_source")
                @@ ("status" :> "ext_bill_status")
                @@ ("latest_progress_date" :> "ext_latest_progress_date") ]

\* the external names the Bill model reads
Bill_aliases == { Bill.alias[f] : f \in DOMAIN Bill.alias }

\* external to logical: the field the Bill model populates from the key e
Bill_field(e) == CHOOSE f \in DOMAIN Bill.alias : Bill.alias[f] = e

(***************************************************************************)
(* C21: a logical field name that a request sends under an external name   *)
(* which the Bill model also reads comes back as the same logical name     *)
(* when the external name is translated back through the Bill aliases.     *)
(***************************************************************************)
C21_RoundTrip ==
    req.sent =>
        \A x \in GivenFilters :
            KeyOf(x) \in Bill_aliases => Bill_field(KeyOf(x)) = x

(***************************************************************************)
(* C22: the tool registry of the server holds every tool name the test     *)
(* test_list_tools expects: the statistics, bill, interpellation and IVOD  *)
(* tools and the law, legislator and meet tools.                           *)
(***************************************************************************)
\* expected_bills_tools of tests/test_server.py, under the server's module
ExpectedTools ==
    { "server.get_stat", "server.list_bills", "server.get_bill",
      "server.get_bill_related_bills", "server.get_bill_meets",
      "server.get_bill_doc_html", "server.list_interpellations",
      "server.get_interpellation", "server.get_legislator_interpellations",
      "server.list_ivods", "server.get_ivod", "server.get_meet_ivods",
      "server.list_laws", "server.get_law", "server.get_law_progress",
      "server.get_law_bills", "server.get_law_versions",
      "server.list_law_contents", "server.get_law_content",
      "server.list_legislators", "server.get_legislator",
      "server.get_legislator_propose_bills",
      "server.get_legislator_cosign_bills", "server.get_legislator_meets",
      "server.list_meets", "server.get_meet", "server.get_meet_bills",
      "server.get_meet_interpellations" }

C22_RegistryHasExpectedTools ==
    (Done /\ inv.tool = "mcp.list_tools") => ExpectedTools \subseteq result.names

(***************************************************************************)
(* C23: api_client.make_api_request puts every endpoint into exactly one   *)
(* of five classes: /bills runs search_bills, /bills/{id}/related runs     *)
(* get_bill_related_bills for id, /bills/{id}/meets runs get_bill_meets    *)
(* for id, /bills/{id} with no further slash runs get_bill_detail for id,  *)
(* and every other endpoint yields the unsupported-endpoint failure        *)
(* envelope and no upstream request.                                       *)
(***************************************************************************)
\* the operation the five classes name for the endpoint e
C23_Class(e) ==
    IF e = <<"bills">> THEN "search_bills"
    ELSE IF Len(e) = 3 /\ e[1] = "bills" /\ e[3] = "related"
    THEN "get_bill_related_bills"
    ELSE IF Len(e) = 3 /\ e[1] = "bills" /\ e[3] = "meets"
    THEN "get_bill_meets"
    ELSE IF Len(e) = 2 /\ e[1] = "bills" THEN "get_bill_detail"
    ELSE "unsupported"

\* the invocation in progress is a dispatcher call whose arguments bind
DispatcherCall ==
    /\ pc # "idle"
    /\ inv.tool = "api_client.make_api_request"
    /\ ClientPlan(inv.tool, inv.a).op # "type_error"

C23_FiveClasses ==
    DispatcherCall =>
        LET e == inv.a.id
            class == C23_Class(e)
        IN  IF class = "unsupported"
            THEN /\ Done /\ ~req.sent /\ gets = 0
                 /\ envelope = Failure(<<M_UNSUPPORTED>> \o e)
            ELSE /\ req.sent
                 /\ req.path = ClientRequest(class,
                                   Args(<<>>, <<DefaultPage, DefaultLimit>>,
                                        "none",
                                        IF Len(e) >= 2 THEN <<e[2]>> ELSE <<>>,
                                        0, TRUE)).path

(***************************************************************************)
(* C24: every endpoint that the tool functions of tools/bill_detail.py     *)
(* hand to make_api_request (/bills/{bill_no},                             *)
(* /bills/{bill_no}/related_bills, /bills/{bill_no}/doc_html) is           *)
(* dispatched to an upstream operation: no tool call ends in the           *)
(* unsupported-endpoint branch of the dispatcher.                          *)
(***************************************************************************)
BillDetailModuleTools ==
    {"tools.get_bill_detail", "tools.get_bill_related_bills",
     "tools.get_bill_doc_html"}

\* the dispatcher answered with its unsupported-endpoint envelope
UnsupportedBranch ==
    /\ Done /\ ~req.sent
    /\ envelope = Failure(<<M_UNSUPPORTED>> \o EndpointOf(inv.tool, inv.a))

C24_ToolEndpointsDispatched ==
    (pc # "idle" /\ inv.tool \in BillDetailModuleTools) =>
        /\ ~UnsupportedBranch
        /\ req.sent

(***************************************************************************)
(* C25: for every bill identifier without a '/', the endpoint              *)
(* '/bills/' + id runs the bill-detail operation with bill_no = id, also   *)
(* when id is 'related' or 'meets': a single-segment detail endpoint is    *)
(* never sent to the related-bills or the meetings operation.              *)
(***************************************************************************)
\* the identifier of a detail endpoint /bills/{id} handed to the dispatcher
DetailEndpointId ==
    IF inv.tool = "tools.get_bill_detail" /\ Len(inv.a.id) = 1
    THEN inv.a.id
    ELSE IF /\ inv.tool = "api_client.make_api_request"
            /\ Len(inv.a.id) = 2 /\ inv.a.id[1] = "bills"
            /\ DOMAIN inv.a.f = {}
    THEN <<inv.a.id[2]>>
    ELSE <<>>

C25_SingleSegmentIsDetail ==
    (pc # "idle" /\ DetailEndpointId # <<>>) =>
        /\ req.sent
        /\ req.path = <<"bills">> \o DetailEndpointId

(***************************************************************************)
(* C26: api_client.make_api_request returns an APIResponse and never       *)
(* raises, for every endpoint and every params mapping, also one holding   *)
(* keys the dispatched operation does not accept.                          *)
(***************************************************************************)
C26_DispatcherNeverRaises ==
    (Done /\ inv.tool = "api_client.make_api_request") =>
        /\ ~result.raised
        /\ result.kind = "envelope"
        /\ envelope # NoEnvelope

(***************************************************************************)
(* C27: a call of search_bills_cached or get_bill_detail_cached that       *)
(* raises stores nothing in the cache: its argument tuple is not a key of  *)
(* the memo afterwards, a call whose tuple is not a key issues a new       *)
(* upstream request, and an answer taken from the memo is never an error.  *)
(***************************************************************************)
C27_NotStored ==
    (Done /\ inv.tool \in CachedToolNames /\ result.raised)
        => inv \notin DOMAIN cache

C27_NoReplay ==
    (Done /\ inv.tool \in CachedToolNames /\ gets = 0)
        => (~result.raised /\ result.body # NoPayload)

C27_Miss ==
    (pc = "idle" /\ pc' # "idle" /\ inv' \notin DOMAIN cache)
        => (pc' = "waiting" /\ gets' = 1 /\ req'.sent)

C27_Safe == C27_NotStored /\ C27_NoReplay

C27_FailureNotCached == []C27_Safe /\ [][C27_Miss]_vars

C27_Witness ==
    /\ Done
    /\ inv.tool = "get_bill_detail_cached"
    /\ gets = 1
    /\ result.raised
    /\ upstream.kind = "status"
    /\ inv \notin DOMAIN cache
    /\ Cardinality(DOMAIN cache) >= 2

(***************************************************************************)
(* C28: an operation whose resource identifier is part of the URL path     *)
(* (bill_no, comt_cd, gazette_id, and term plus name for the legislator    *)
(* interpellations) sends the identifier in the path only: the outgoing    *)
(* query of a server tool holds no key that carries a path identifier.     *)
(***************************************************************************)
\* the keys under which the request model of the tool would dump the
\* fields that are embedded in its path
PathIdentifierKeys(tool) ==
    LET cls == ServerTools[tool].cls
        idFields == (IF cls.idField # "" THEN {cls.idField} ELSE {})
                    \cup (IF tool = "server.get_legislator_interpellations"
                          THEN {"term", "name"} ELSE {})
        alias == AliasOf(cls.fields, cls.aliasKey)
    IN  idFields \cup { alias[f] : f \in idFields \cap DOMAIN alias }

C28_IdentifierOnlyInPath ==
    (req.sent /\ inv.tool \in ServerToolNames
              /\ PathIdentifierKeys(inv.tool) # {})
        => DOMAIN req.params \cap PathIdentifierKeys(inv.tool) = {}

(***************************************************************************)
(* C29: every implementation of the bill search sends the logical field    *)
(* term under the external key of term and session under the external key  *)
(* of session, so the same arguments give the same outgoing query          *)
(* whichever variant builds it.                                            *)
(***************************************************************************)
BillSearchTools ==
    {"server.list_bills", "template.search_bills",
     "types.SearchBillRequest.do", "client.search_bills",
     "tools.search_bills"}

C29_SameKeysInEveryVariant ==
    (req.sent /\ inv.tool \in BillSearchTools) =>
        \A x \in {"term", "session"} \cap DOMAIN inv.a.f :
            /\ translate[x] \in DOMAIN req.params
            /\ req.params[translate[x]] = inv.a.f[x]

(***************************************************************************)
(* C30: every tool invocation eventually completes: once its single        *)
(* upstream call resolves (a response, a connection error or the timeout), *)
(* the invocation hands exactly one result to its caller and makes no      *)
(* further upstream call.                                                  *)
(***************************************************************************)
\* the step in which the upstream call resolves ends the invocation with a
\* result and without another GET; a finished invocation makes no GET
ToolFunctions ==
    ServerToolNames \cup TemplateToolNames
    \cup {"tools.search_bills", "tools.get_bill_detail",
          "tools.get_bill_related_bills", "tools.get_bill_doc_html",
          "tools.get_bill_meets"}

C30_OneResult ==
    /\ (pc = "waiting" /\ pc' # "waiting")
          => /\ pc' = "done"
             /\ upstream' # NoOutcome
             /\ result' # NoResult
             /\ inv.tool \in ToolFunctions => ~result'.raised
             /\ gets = 1 /\ gets' = 1
             /\ req' = req
    /\ pc = "waiting" => gets = 1
    /\ pc = "done" => (pc' = "idle" /\ gets' = 0 /\ ~req'.sent)

C30_Completes ==
    ((pc = "waiting") ~> (pc = "done")) /\ [][C30_OneResult]_vars

C30_Witness ==
    /\ Done
    /\ inv.tool = "tools.get_bill_meets"
    /\ upstream.kind = "timeout"
    /\ gets = 1
    /\ result # NoResult /\ ~result.raised

====
